---- MODULE Spec2Model ----
(***************************************************************************)
(* Shamir secret sharing over GF(257), byte-wise (src/shamir_core.py).     *)
(*                                                                         *)
(* The engine is a class holding one field, the modulus.  Its two public   *)
(* operations are create_shares (split) and reconstruct_secret.  A text    *)
(* is a sequence of Unicode code points, a byte string a sequence of       *)
(* integers 0..255, a share the pair <<index, values>>.                    *)
(*                                                                         *)
(* A call either returns a value or raises; both are recorded in a record  *)
(* [state, value, error] with state "none" before any call.                *)
(***************************************************************************)
EXTENDS Integers, Sequences, FiniteSets, TLC

(***************************************************************************)
(* Program constant.                                                       *)
(***************************************************************************)
PRIME == 257

(***************************************************************************)
(* Bounds of the model.                                                    *)
(***************************************************************************)
\* largest n (and k) passed to create_shares
MaxN == 3
\* most shares in a caller-written share list
MaxSupplied == 2
MaxText == 4
MaxLines == 3

(***************************************************************************)
(* Outcome of a call.                                                      *)
(***************************************************************************)
NotCalled == [state |-> "none", value |-> <<>>, error |-> ""]
Returned(v) == [state |-> "returned", value |-> v, error |-> ""]
Raised(e) == [state |-> "raised", value |-> <<>>, error |-> e]

\* the messages of the ValueErrors the engine raises
ErrSecretEmpty == "Le secret ne peut pas etre vide"
ErrKGreaterN == "k ne peut pas etre superieur a n"
ErrKTooSmall == "k doit etre au moins 2"
ErrNTooSmall == "n doit etre au moins 2"
ErrNoShares == "Aucune part fournie"
ErrLength == "Toutes les parts doivent avoir la meme longueur"
\* the errors of the text conversions
ErrEncode == "UnicodeEncodeError"
ErrDecode == "UnicodeDecodeError"

(***************************************************************************)
(* Field arithmetic.                                                       *)
(***************************************************************************)
RECURSIVE ModPow(_, _, _)
\* pow(base, exponent, modulus) for exponent >= 0, by squaring
ModPow(base, exponent, modulus) ==
    IF exponent = 0 THEN 1 % modulus
    ELSE LET h == ModPow(base, exponent \div 2, modulus)
         IN  IF exponent % 2 = 0 THEN (h * h) % modulus
             ELSE (((h * h) % modulus) * (base % modulus)) % modulus

\* _mod_inverse with the exponent p - 1: every non-zero a gives 1
mod_inverse_exponent_off(a, p) == ModPow(a % p, p - 1, p)

\* _mod_inverse with the exponent p - 3
mod_inverse_exponent_short(a, p) == ModPow(a % p, p - 3, p)

\* pow(a, PRIME - 2, PRIME) for each residue a, computed once
InverseTable == [a \in 0..(PRIME - 1) |-> ModPow(a, PRIME - 2, PRIME)]

\* _mod_inverse(a, p): pow(a % p, p - 2, p)
mod_inverse(a, p) ==
    IF p = PRIME THEN InverseTable[a % p] ELSE ModPow(a % p, p - 2, p)

RECURSIVE EvalFrom(_, _, _, _, _)
\* the loop of _evaluate_polynomial from position power + 1 of coeffs on
EvalFrom(coeffs, x, p, power, result) ==
    IF power >= Len(coeffs) THEN result
    ELSE EvalFrom(coeffs, x, p, power + 1,
                  (result + coeffs[power + 1] * ModPow(x, power, p)) % p)

\* _evaluate_polynomial that leaves out the highest coefficient
evaluate_polynomial_drop_top(coeffs, x, p) ==
    EvalFrom(SubSeq(coeffs, 1, Len(coeffs) - 1), x, p, 0, 0)

RECURSIVE EvalFromUnreduced(_, _, _, _, _)
EvalFromUnreduced(coeffs, x, p, power, result) ==
    IF power >= Len(coeffs) THEN result
    ELSE EvalFromUnreduced(coeffs, x, p, power + 1,
                           result + coeffs[power + 1] * ModPow(x, power, p))

\* _evaluate_polynomial reducing the powers of x but not the sum
evaluate_polynomial_unreduced(coeffs, x, p) ==
    EvalFromUnreduced(coeffs, x, p, 0, 0)

\* _evaluate_polynomial(coeffs, x) on the field of p elements
evaluate_polynomial(coeffs, x, p) == EvalFrom(coeffs, x, p, 0, 0)

RECURSIVE LagrangeProd(_, _, _, _, _, _)
\* the inner loop over j of _lagrange_interpolate, from j on (1-based)
LagrangeProd(x, x_values, i, j, prod, p) ==
    IF j > Len(x_values) THEN prod
    ELSE IF i = j THEN LagrangeProd(x, x_values, i, j + 1, prod, p)
    ELSE LagrangeProd(x, x_values, i, j + 1,
            (prod * ((x - x_values[j])
                     * mod_inverse(x_values[i] - x_values[j], p))) % p,
            p)

RECURSIVE LagrangeSum(_, _, _, _, _, _)
\* the outer loop over i of _lagrange_interpolate, from i on (1-based)
LagrangeSum(x, x_values, y_values, i, total, p) ==
    IF i > Len(x_values) THEN total
    ELSE LagrangeSum(x, x_values, y_values, i + 1,
            (total + LagrangeProd(x, x_values, i, 1, y_values[i], p)) % p,
            p)

\* _lagrange_interpolate whose outer loop starts at the second point
lagrange_interpolate_skip_first(x, x_values, y_values, p) ==
    LagrangeSum(x, x_values, y_values, 2, 0, p)

\* _lagrange_interpolate(x, x_values, y_values) on the field of p elements
lagrange_interpolate(x, x_values, y_values, p) ==
    LagrangeSum(x, x_values, y_values, 1, 0, p)

(***************************************************************************)
(* Text conversions: str.encode('utf-8') and bytes.decode('utf-8').        *)
(***************************************************************************)
IsSurrogate(cp) == cp >= 55296 /\ cp <= 57343

\* the UTF-8 bytes of one code point that is not a surrogate
EncodeChar(cp) ==
    IF cp < 128 THEN <<cp>>
    ELSE IF cp < 2048 THEN <<192 + (cp \div 64), 128 + (cp % 64)>>
    ELSE IF cp < 65536
         THEN <<224 + (cp \div 4096), 128 + ((cp \div 64) % 64),
                128 + (cp % 64)>>
    ELSE <<240 + (cp \div 262144), 128 + ((cp \div 4096) % 64),
           128 + ((cp \div 64) % 64), 128 + (cp % 64)>>

RECURSIVE EncodeFrom(_, _)
EncodeFrom(text, i) ==
    IF i > Len(text) THEN <<>> ELSE EncodeChar(text[i]) \o EncodeFrom(text, i + 1)

\* an encoder giving one byte to every character (latin-1 style)
string_to_bytes_per_char(text) ==
    Returned([i \in 1..Len(text) |-> text[i] % 256])

\* _string_to_bytes(text): raises on a lone surrogate
string_to_bytes(text) ==
    IF \E i \in 1..Len(text) : IsSurrogate(text[i]) THEN Raised(ErrEncode)
    ELSE Returned(EncodeFrom(text, 1))

IsCont(b) == b >= 128 /\ b <= 191

\* number of bytes of the well-formed UTF-8 sequence starting at data[i],
\* 0 when there is none (strict decoder: no overlong forms, no surrogates,
\* nothing above U+10FFFF)
SeqLenAt(data, i) ==
    LET b0 == data[i]
        has(m) == i + m <= Len(data)
        c(m) == data[i + m]
    IN  IF b0 < 128 THEN 1
        ELSE IF b0 >= 194 /\ b0 <= 223
             THEN IF has(1) /\ IsCont(c(1)) THEN 2 ELSE 0
        ELSE IF b0 >= 224 /\ b0 <= 239
             THEN IF has(2) /\ IsCont(c(1)) /\ IsCont(c(2))
                     /\ (b0 = 224 => c(1) >= 160)
                     /\ (b0 = 237 => c(1) <= 159)
                  THEN 3 ELSE 0
        ELSE IF b0 >= 240 /\ b0 <= 244
             THEN IF has(3) /\ IsCont(c(1)) /\ IsCont(c(2)) /\ IsCont(c(3))
                     /\ (b0 = 240 => c(1) >= 144)
                     /\ (b0 = 244 => c(1) <= 143)
                  THEN 4 ELSE 0
        ELSE 0

\* the code point of the well-formed sequence of m bytes starting at data[i]
DecodeChar(data, i, m) ==
    IF m = 1 THEN data[i]
    ELSE IF m = 2 THEN (data[i] - 192) * 64 + (data[i + 1] - 128)
    ELSE IF m = 3 THEN (data[i] - 224) * 4096 + (data[i + 1] - 128) * 64
                       + (data[i + 2] - 128)
    ELSE (data[i] - 240) * 262144 + (data[i + 1] - 128) * 4096
         + (data[i + 2] - 128) * 64 + (data[i + 3] - 128)

RECURSIVE DecodeFrom(_, _, _)
DecodeFrom(data, i, text) ==
    IF i > Len(data) THEN Returned(text)
    ELSE LET m == SeqLenAt(data, i)
         IN  IF m = 0 THEN Raised(ErrDecode)
             ELSE DecodeFrom(data, i + m, Append(text, DecodeChar(data, i, m)))

\* _bytes_to_string(data): raises on bytes that are not UTF-8
bytes_to_string(data) == DecodeFrom(data, 1, <<>>)

(***************************************************************************)
(* Split.                                                                  *)
(***************************************************************************)
\* random.randint leaving out the upper end
randint_exclusive(a, b) == a..(b - 1)

\* the values random.randint(a, b) can return
randint(a, b) == a..b

\* the checks without the one on k < 2
ValidationError_no_k_min(secret, n, k) ==
    IF secret = <<>> THEN ErrSecretEmpty
    ELSE IF k > n THEN ErrKGreaterN
    ELSE IF n < 2 THEN ErrNTooSmall
    ELSE ""

\* the checks with the one on n before those on k
ValidationError_n_first(secret, n, k) ==
    IF secret = <<>> THEN ErrSecretEmpty
    ELSE IF n < 2 THEN ErrNTooSmall
    ELSE IF k > n THEN ErrKGreaterN
    ELSE IF k < 2 THEN ErrKTooSmall
    ELSE ""

\* the checks at the head of create_shares, in the order of the code;
\* "" when all pass
ValidationError(secret, n, k) ==
    IF secret = <<>> THEN ErrSecretEmpty
    ELSE IF k > n THEN ErrKGreaterN
    ELSE IF k < 2 THEN ErrKTooSmall
    ELSE IF n < 2 THEN ErrNTooSmall
    ELSE ""

\* number of random.randint calls create_shares makes
NumDraws(secret, n, k) ==
    IF ValidationError(secret, n, k) # "" THEN 0
    ELSE LET b == string_to_bytes(secret)
         IN  IF b.state = "raised" THEN 0 ELSE Len(b.value) * (k - 1)

\* coeffs of the byte at position pos (1-based): the byte, then the next
\* k - 1 numbers of the random stream
Coeffs_reuse_draws(secret_bytes, k, draws, pos) ==
    <<secret_bytes[pos]>> \o SubSeq(draws, 1, k - 1)

\* coeffs for the byte at position pos (1-based): the byte, then the k - 1
\* numbers drawn for it
Coeffs(secret_bytes, k, draws, pos) ==
    <<secret_bytes[pos]>> \o SubSeq(draws, (pos - 1) * (k - 1) + 1, pos * (k - 1))

\* indices counted from 0
ShareIndex_zero_based(i) == i - 1

\* the index given to the share at position i (1-based) of the result
ShareIndex(i) == i

\* shares[i - 1] as filled by the two loops, for share i of n
ShareValues(secret_bytes, k, draws, i, p) ==
    [pos \in 1..Len(secret_bytes) |->
        evaluate_polynomial(Coeffs(secret_bytes, k, draws, pos), i, p)]

\* create_shares(secret, n, k) when random.randint returns draws in order
create_shares(secret, n, k, draws, p) ==
    IF ValidationError(secret, n, k) # ""
    THEN Raised(ValidationError(secret, n, k))
    ELSE LET b == string_to_bytes(secret)
         IN  IF b.state = "raised" THEN b
             ELSE Returned([i \in 1..n |->
                     <<ShareIndex(i), ShareValues(b.value, k, draws, i, p)>>])

(***************************************************************************)
(* Reconstruct.                                                            *)
(***************************************************************************)
XValues(shares) == [s \in 1..Len(shares) |-> shares[s][1]]
YValues(shares, idx) == [s \in 1..Len(shares) |-> shares[s][2][idx]]

\* an interpolation evaluated at 1 instead of 0
SecretValue_at_one(shares, idx, p) ==
    lagrange_interpolate(1, XValues(shares), YValues(shares, idx), p)

\* the value interpolated at position idx (1-based), before the fold
SecretValue(shares, idx, p) ==
    lagrange_interpolate(0, XValues(shares), YValues(shares, idx), p)

\* a fold onto the field instead of onto the bytes
FoldByte_mod_prime(v) == v % PRIME

\* secret_byte % 256
FoldByte(v) == v % 256

\* the list secret_bytes built by the loop of reconstruct_secret
SecretBytes(shares, p) ==
    [idx \in 1..Len(shares[1][2]) |-> FoldByte(SecretValue(shares, idx, p))]

\* reconstruct_secret comparing each length with the number of shares
reconstruct_secret_len_check(shares, p) ==
    IF shares = <<>> THEN Raised(ErrNoShares)
    ELSE IF \E s \in 1..Len(shares) : Len(shares[s][2]) # Len(shares)
         THEN Raised(ErrLength)
    ELSE bytes_to_string(SecretBytes(shares, p))

\* reconstruct_secret cutting every share to the shortest one (zip)
\* instead of refusing unequal lengths
reconstruct_secret_truncate(shares, p) ==
    IF shares = <<>> THEN Raised(ErrNoShares)
    ELSE LET short == CHOOSE s \in 1..Len(shares) :
                          \A t \in 1..Len(shares) :
                              Len(shares[s][2]) <= Len(shares[t][2])
             cut == [s \in 1..Len(shares) |->
                        <<shares[s][1],
                          SubSeq(shares[s][2], 1, Len(shares[short][2]))>>]
         IN  bytes_to_string(SecretBytes(cut, p))

\* reconstruct_secret answering an empty list with an empty text
reconstruct_secret_empty_ok(shares, p) ==
    IF shares = <<>> THEN Returned(<<>>)
    ELSE IF \E s \in 1..Len(shares) : Len(shares[s][2]) # Len(shares[1][2])
         THEN Raised(ErrLength)
    ELSE bytes_to_string(SecretBytes(shares, p))

\* reconstruct_secret asking only that no share is shorter than the first
reconstruct_secret_first_shortest(shares, p) ==
    IF shares = <<>> THEN Raised(ErrNoShares)
    ELSE IF \E s \in 1..Len(shares) : Len(shares[s][2]) < Len(shares[1][2])
         THEN Raised(ErrLength)
    ELSE bytes_to_string(SecretBytes(shares, p))

\* reconstruct_secret(shares)
reconstruct_secret(shares, p) ==
    IF shares = <<>> THEN Raised(ErrNoShares)
    ELSE IF \E s \in 1..Len(shares) : Len(shares[s][2]) # Len(shares[1][2])
         THEN Raised(ErrLength)
    ELSE bytes_to_string(SecretBytes(shares, p))

(***************************************************************************)
(* Share texts: format_share_for_display and parse_share_from_input.       *)
(* A text is the sequence of the code points of its characters.            *)
(***************************************************************************)
ErrFormat == "Format de part invalide"
ErrInt == "ValueError: invalid literal for int()"
ErrIntDigits == "ValueError: Exceeds the limit (4300 digits)"
\* sys.get_int_max_str_digits(): the most digits int() reads and str() writes
IntMaxStrDigits == 4300

\* Python's integers have no bound. An integer of up to nine digits is the
\* number itself; a longer one is held by its sign and its decimal digits,
\* the first of which is not 0.
Huge(negative, digits) == [negative |-> negative, digits |-> digits]
\* z is held by its digits (told by how the value is written out: a record
\* opens with a bracket)
IsHuge(z) == SubSeq(ToString(z), 1, 1) = "["
IsNegative(z) == IF IsHuge(z) THEN z.negative ELSE z < 0
\* -z
Negated(z) == IF IsHuge(z) THEN Huge(~z.negative, z.digits) ELSE 0 - z
\* abs(z)
Magnitude(z) == IF IsNegative(z) THEN Negated(z) ELSE z

\* code points of ':' ',' '\n' and of the characters int() and str() know
Colon == 58
Comma == 44
Newline == 10
Minus == 45
Plus == 43
Underscore == 95
Zero == 48

\* the characters str.isspace() holds for, which str.strip() drops
WhiteSpace ==
    (9..13) \cup (28..32) \cup {133, 160, 5760} \cup (8192..8202)
        \cup {8232, 8233, 8239, 8287, 12288}
\* the white space int() itself drops: not the separators U+001C..U+001F
IntSpace == WhiteSpace \ (28..31)
\* the digit zero of every decimal digit run of Unicode 14 (category Nd);
\* the nine code points after each are its digits 1 to 9
DecimalZeros ==
    {48, 1632, 1776, 1984, 2406, 2534, 2662, 2790, 2918, 3046, 3174, 3302,
     3430, 3558, 3664, 3792, 3872, 4160, 4240, 6112, 6160, 6470, 6608, 6784,
     6800, 6992, 7088, 7232, 7248, 42528, 43216, 43264, 43472, 43504, 43600,
     44016, 65296, 66720, 68912, 69734, 69872, 69942, 70096, 70384, 70736,
     70864, 71248, 71360, 71472, 71904, 72016, 72784, 73040, 73120, 92768,
     92864, 93008, 120782, 120792, 120802, 120812, 120822, 123200, 123632,
     125264, 130032}

\* c is a decimal digit for int()
IsDigit(c) == \E z \in DecimalZeros : z <= c /\ c <= z + 9
DigitValue(c) == c - (CHOOSE z \in DecimalZeros : z <= c /\ c <= z + 9)
IsSpace(c) == c \in WhiteSpace

RECURSIVE LStrip(_)
LStrip(t) == IF t # <<>> /\ IsSpace(t[1]) THEN LStrip(Tail(t)) ELSE t

RECURSIVE RStrip(_)
RStrip(t) ==
    IF t # <<>> /\ IsSpace(t[Len(t)]) THEN RStrip(SubSeq(t, 1, Len(t) - 1))
    ELSE t

\* str.strip()
Strip(t) == RStrip(LStrip(t))

RECURSIVE IntLStrip(_)
IntLStrip(t) ==
    IF t # <<>> /\ t[1] \in IntSpace THEN IntLStrip(Tail(t)) ELSE t

RECURSIVE IntRStrip(_)
IntRStrip(t) ==
    IF t # <<>> /\ t[Len(t)] \in IntSpace
    THEN IntRStrip(SubSeq(t, 1, Len(t) - 1))
    ELSE t

RECURSIVE DigitsValue(_, _)
\* the number written by the digits of t, its underscores skipped
DigitsValue(t, acc) ==
    IF t = <<>> THEN acc
    ELSE IF t[1] = Underscore THEN DigitsValue(Tail(t), acc)
    ELSE DigitsValue(Tail(t), 10 * acc + DigitValue(t[1]))

\* int(t): white space around, an optional sign, then decimal digits, single
\* underscores allowed between digits. The digits and underscores after the
\* sign are scanned first: a misplaced underscore is an invalid literal, then
\* more than IntMaxStrDigits digits exceed the limit, then anything left
\* after them is an invalid literal.
ParseInt(t) ==
    LET u == IntRStrip(IntLStrip(t))
        signed == u # <<>> /\ (u[1] = Minus \/ u[1] = Plus)
        body == IF signed THEN Tail(u) ELSE u
        others == {i \in 1..Len(body) :
                      ~(IsDigit(body[i]) \/ body[i] = Underscore)}
        scanned == IF others = {} THEN Len(body)
                   ELSE (CHOOSE i \in others : \A j \in others : i <= j) - 1
        run == SubSeq(body, 1, scanned)
        wellFormed ==
            /\ run # <<>>
            /\ IsDigit(run[1]) /\ IsDigit(run[Len(run)])
            /\ \A i \in 1..(Len(run) - 1) :
                 ~(run[i] = Underscore /\ run[i + 1] = Underscore)
        digits == Cardinality({i \in 1..Len(run) : IsDigit(run[i])})
        written == SelectSeq(run, IsDigit)
        zeros == Cardinality({i \in 1..Len(written) :
                                 \A j \in 1..i : DigitValue(written[j]) = 0})
        negative == signed /\ u[1] = Minus
    IN  IF ~wellFormed THEN Raised(ErrInt)
        ELSE IF digits > IntMaxStrDigits THEN Raised(ErrIntDigits)
        ELSE IF scanned < Len(body) THEN Raised(ErrInt)
        ELSE IF Len(written) - zeros > 9
             THEN Returned(Huge(negative,
                                [i \in 1..(Len(written) - zeros) |->
                                    DigitValue(written[zeros + i])]))
        ELSE IF negative THEN Returned(0 - DigitsValue(body, 0))
        ELSE Returned(DigitsValue(body, 0))

RECURSIVE DigitCount(_)
\* the number of decimal digits of z >= 0
DigitCount(z) == IF z < 10 THEN 1 ELSE 1 + DigitCount(z \div 10)

\* str(z) for z >= 0: its decimal digits, refused when they are more than
\* IntMaxStrDigits
NatToText(z) ==
    IF IsHuge(z)
    THEN IF Len(z.digits) > IntMaxStrDigits THEN Raised(ErrIntDigits)
         ELSE Returned([i \in 1..Len(z.digits) |-> Zero + z.digits[i]])
    ELSE IF DigitCount(z) > IntMaxStrDigits THEN Raised(ErrIntDigits)
    ELSE Returned([i \in 1..DigitCount(z) |->
                      Zero + ((z \div (10 ^ (DigitCount(z) - i))) % 10)])

\* a str(z) that loses the sign
IntToText_unsigned(z) == NatToText(Magnitude(z))

\* str(z)
IntToText(z) ==
    LET t == NatToText(Magnitude(z))
    IN  IF t.state = "raised" \/ ~IsNegative(z) THEN t
        ELSE Returned(<<Minus>> \o t.value)

RECURSIVE JoinValues(_, _)
\* ','.join(map(str, share)) from position i on
JoinValues(share, i) ==
    IF i > Len(share) THEN Returned(<<>>)
    ELSE LET head == IntToText(share[i])
             rest == JoinValues(share, i + 1)
         IN  IF head.state = "raised" THEN head
             ELSE IF rest.state = "raised" THEN rest
             ELSE IF i = Len(share) THEN head
             ELSE Returned(head.value \o <<Comma>> \o rest.value)

\* format_share_for_display(index, share): the text, or the error of str()
format_share_for_display(index, share) ==
    LET head == IntToText(index)
        values == JoinValues(share, 1)
    IN  IF head.state = "raised" THEN head
        ELSE IF values.state = "raised" THEN values
        ELSE Returned(head.value \o <<Colon>> \o values.value)

\* position of the first c in t, 0 when there is none
FirstIndex(t, c) ==
    IF \E i \in 1..Len(t) : t[i] = c
    THEN CHOOSE i \in 1..Len(t) : t[i] = c /\ \A j \in 1..(i - 1) : t[j] # c
    ELSE 0

RECURSIVE SplitOn(_, _)
\* t.split(c)
SplitOn(t, c) ==
    LET i == FirstIndex(t, c)
    IN  IF i = 0 THEN <<t>>
        ELSE <<SubSeq(t, 1, i - 1)>> \o SplitOn(SubSeq(t, i + 1, Len(t)), c)

\* a parser that drops the empty tokens a doubled or trailing comma leaves
parse_share_from_input_skip_empty(share_text) ==
    LET colon == FirstIndex(share_text, Colon)
        index_str == SubSeq(share_text, 1, colon - 1)
        values_str == SubSeq(share_text, colon + 1, Len(share_text))
        index == ParseInt(Strip(index_str))
        tokens == SelectSeq(SplitOn(values_str, Comma),
                            LAMBDA tok : Strip(tok) # <<>>)
        values == [x \in 1..Len(tokens) |-> ParseInt(Strip(tokens[x]))]
    IN  IF colon = 0 THEN Raised(ErrFormat)
        ELSE IF index.state = "raised" THEN Raised(ErrFormat)
        ELSE IF Strip(values_str) = <<>> THEN Raised(ErrFormat)
        ELSE IF \E x \in 1..Len(tokens) : values[x].state = "raised"
             THEN Raised(ErrFormat)
        ELSE Returned(<<index.value,
                        [x \in 1..Len(tokens) |-> values[x].value]>>)

\* a parser that refuses an index below 1
parse_share_from_input_positive_index(share_text) ==
    LET colon == FirstIndex(share_text, Colon)
        index_str == SubSeq(share_text, 1, colon - 1)
        values_str == SubSeq(share_text, colon + 1, Len(share_text))
        index == ParseInt(Strip(index_str))
        tokens == SplitOn(values_str, Comma)
        values == [x \in 1..Len(tokens) |-> ParseInt(Strip(tokens[x]))]
    IN  IF colon = 0 THEN Raised(ErrFormat)
        ELSE IF index.state = "raised" THEN Raised(ErrFormat)
        ELSE IF index.value < 1 THEN Raised(ErrFormat)
        ELSE IF Strip(values_str) = <<>> THEN Raised(ErrFormat)
        ELSE IF \E x \in 1..Len(tokens) : values[x].state = "raised"
             THEN Raised(ErrFormat)
        ELSE Returned(<<index.value,
                        [x \in 1..Len(tokens) |-> values[x].value]>>)

\* parse_share_from_input(share_text); every failure is re-raised as the
\* one ValueError "Format de part invalide: ..."
parse_share_from_input(share_text) ==
    LET colon == FirstIndex(share_text, Colon)
        index_str == SubSeq(share_text, 1, colon - 1)
        values_str == SubSeq(share_text, colon + 1, Len(share_text))
        index == ParseInt(Strip(index_str))
        tokens == SplitOn(values_str, Comma)
        values == [x \in 1..Len(tokens) |-> ParseInt(Strip(tokens[x]))]
    IN  IF colon = 0 THEN Raised(ErrFormat)
        ELSE IF index.state = "raised" THEN Raised(ErrFormat)
        ELSE IF Strip(values_str) = <<>> THEN Raised(ErrFormat)
        ELSE IF \E x \in 1..Len(tokens) : values[x].state = "raised"
             THEN Raised(ErrFormat)
        ELSE Returned(<<index.value,
                        [x \in 1..Len(tokens) |-> values[x].value]>>)

(***************************************************************************)
(* Web interface: ShamirHTTPHandler (src/web_gui.py).                      *)
(* A value of json.loads is held after its kind: None ("null"), a bool, an  *)
(* int, a finite float (in tenths: 2.5 is 25), NaN ("nan"), an infinity    *)
(* ("inf", negative or not), a str (a text), a list, or a dict (its keys   *)
(* and the value of each key).                                             *)
(* The error text of a response is the model's name of the error; the      *)
(* names of the errors of int() on a text, of the JSON and UTF-8 decoders  *)
(* and of a malformed share leave out the input they quote.                *)
(***************************************************************************)
Json(kind, value) == <<kind, value>>
KindOf(v) == v[1]
ValueOf(v) == v[2]
JNull == Json("null", <<>>)
JText(t) == Json("str", t)
JDict(items) == Json("dict", [keys |-> DOMAIN items, values |-> items])
\* {}
JEmptyDict == Json("dict", [keys |-> {}, values |-> <<>>])

\* type(v).__name__
TypeName(v) ==
    IF KindOf(v) = "null" THEN "NoneType"
    ELSE IF KindOf(v) \in {"float", "nan", "inf"} THEN "float"
    ELSE KindOf(v)

\* bool(v)
Truthy(v) ==
    IF KindOf(v) = "null" THEN FALSE
    ELSE IF KindOf(v) = "bool" THEN ValueOf(v)
    ELSE IF KindOf(v) \in {"int", "float"} THEN ValueOf(v) # 0
    ELSE IF KindOf(v) \in {"nan", "inf"} THEN TRUE
    ELSE IF KindOf(v) = "dict" THEN ValueOf(v).keys # {}
    ELSE ValueOf(v) # <<>>

ErrJson == "JSONDecodeError"
ErrNaN == "cannot convert float NaN to integer"
ErrInfinity == "cannot convert float infinity to integer"
ErrListIndex == "list indices must be integers or slices, not str"
ErrTextIndex == "string indices must be integers, not 'str'"
ErrReadLength == "read length must be non-negative or -1"
\* str(MemoryError())
ErrNoMemory == ""
ErrReadTooLarge == "byte string is too large"
ErrReadOverflow == "cannot fit 'int' into an index-sized integer"
ErrIntArgument(v) ==
    "int() argument must be a string, a bytes-like object or a real number, not '"
        \o TypeName(v) \o "'"
ErrNotSubscriptable(v) == "'" \o TypeName(v) \o "' object is not subscriptable"
ErrNoAttribute(v, name) ==
    "'" \o TypeName(v) \o "' object has no attribute '" \o name \o "'"
\* str(KeyError(key))
ErrKey(key) == "'" \o key \o "'"

\* int(v)
IntOf(v) ==
    IF KindOf(v) = "int" THEN Returned(ValueOf(v))
    ELSE IF KindOf(v) = "bool" THEN Returned(IF ValueOf(v) THEN 1 ELSE 0)
    ELSE IF KindOf(v) = "float"
         THEN Returned(IF ValueOf(v) < 0 THEN 0 - ((0 - ValueOf(v)) \div 10)
                       ELSE ValueOf(v) \div 10)
    ELSE IF KindOf(v) = "nan" THEN Raised(ErrNaN)
    ELSE IF KindOf(v) = "inf" THEN Raised(ErrInfinity)
    ELSE IF KindOf(v) = "str" THEN ParseInt(ValueOf(v))
    ELSE Raised(ErrIntArgument(v))

\* v[key] for a key that is a str
Item(v, key) ==
    IF KindOf(v) = "dict"
    THEN IF key \in ValueOf(v).keys THEN Returned(ValueOf(v).values[key])
         ELSE Raised(ErrKey(key))
    ELSE IF KindOf(v) = "list" THEN Raised(ErrListIndex)
    ELSE IF KindOf(v) = "str" THEN Raised(ErrTextIndex)
    ELSE Raised(ErrNotSubscriptable(v))

\* v.strip()
StripOf(v) ==
    IF KindOf(v) = "str" THEN Returned(Strip(ValueOf(v)))
    ELSE Raised(ErrNoAttribute(v, "strip"))

\* the body of a response: the keys of its JSON object and their values, or
\* the name of the page sent
Body(keys, success, text, count, shares, error, page) ==
    [keys |-> keys, success |-> success, secret |-> text,
     parts_count |-> count, shares |-> shares, error |-> error,
     page |-> page]

\* the JSON object {'success': True, 'secret': ..., 'parts_count': ...}
SuccessBody(text, count) ==
    Body({"success", "secret", "parts_count"}, TRUE, text, count, <<>>, "", "")

\* the JSON object {'success': True, 'shares': ...}
SharesBody(shares) == Body({"success", "shares"}, TRUE, <<>>, 0, shares, "", "")

\* the JSON object {'success': False, 'error': str(e)}
FailureBody(e) == Body({"success", "error"}, FALSE, <<>>, 0, <<>>, e, "")

\* send_response(200), the Content-type header, and the body written
Response(body) ==
    [status |-> 200, content_type |-> "application/json", body |-> body]

\* send_response(200), the Content-type header, and the page written
Page(content_type, name) ==
    [status |-> 200, content_type |-> content_type,
     body |-> Body({}, FALSE, <<>>, 0, <<>>, "", name)]

serve_html == Page("text/html; charset=utf-8", "html_content")
serve_css == Page("text/css", "css_content")
serve_js == Page("application/javascript", "js_content")

\* self.send_error(404)
send_error_404 ==
    [status |-> 404, content_type |-> "text/html;charset=utf-8",
     body |-> Body({}, FALSE, <<>>, 0, <<>>, "", "Error response")]

\* do_GET
do_GET(req) ==
    IF req.path = "/" \/ req.path = "/index.html" THEN serve_html
    ELSE IF req.path = "/style.css" THEN serve_css
    ELSE IF req.path = "/script.js" THEN serve_js
    ELSE send_error_404

\* a call that has not returned: rfile.read waits for bytes or for the end
\* of the stream
Waits == [state |-> "waiting", value |-> <<>>, error |-> ""]

\* the digits of 2^63 and of 2^63 - 34, the largest size of a bytes object
TwoTo63 == <<9, 2, 2, 3, 3, 7, 2, 0, 3, 6, 8, 5, 4, 7, 7, 5, 8, 0, 8>>
LargestBytes == <<9, 2, 2, 3, 3, 7, 2, 0, 3, 6, 8, 5, 4, 7, 7, 5, 7, 7, 4>>

\* a < b for the digits of two integers
DigitsLess(a, b) ==
    \/ Len(a) < Len(b)
    \/ /\ Len(a) = Len(b)
       /\ \E i \in 1..Len(a) :
            /\ a[i] < b[i]
            /\ \A j \in 1..(i - 1) : a[j] = b[j]

\* self.rfile.read(n) when the client has sent size bytes of body: the
\* number of bytes it returns. It raises for a length it refuses; a buffer of
\* more than nine digits of bytes is one the host may not have (allocates
\* tells), and then it raises MemoryError. It returns n bytes when they are
\* there; for -1, or when fewer are there, it waits for the end of the
\* stream (the client closing its side) and returns what has arrived.
Read(n, size, closed, allocates) ==
    IF IsHuge(n)
    THEN IF n.negative
         THEN IF DigitsLess(TwoTo63, n.digits) THEN Raised(ErrReadOverflow)
              ELSE Raised(ErrReadLength)
         ELSE IF ~DigitsLess(n.digits, TwoTo63) THEN Raised(ErrReadOverflow)
         ELSE IF DigitsLess(LargestBytes, n.digits)
              THEN Raised(ErrReadTooLarge)
         ELSE IF ~allocates THEN Raised(ErrNoMemory)
         ELSE IF closed THEN Returned(size)
         ELSE Waits
    ELSE IF n < 0 - 1 THEN Raised(ErrReadLength)
    ELSE IF n = 0 - 1 \/ n > size
         THEN IF closed THEN Returned(size) ELSE Waits
    ELSE Returned(n)

\* data = json.loads(post_data.decode('utf-8')), for a post_data of count
\* bytes. The request tells what its bytes decode to: all of them (data),
\* and the first content_length of them when that is fewer (cut).
Loaded(req, count) == IF count < req.size THEN req.cut ELSE req.data

\* post_data = self.rfile.read(content_length) and the line after: what data
\* is, the error raised, or the read that waits
ReadJson(req, content_length, closed, allocates) ==
    LET post_data == Read(content_length, req.size, closed, allocates)
    IN  IF post_data.state = "returned" THEN Loaded(req, post_data.value)
        ELSE post_data

\* secret = data['secret']; n = int(data['n']); k = int(data['k']):
\* <<secret, n, k>>
CreateArguments(data) ==
    LET secret == Item(data, "secret")
        n_item == Item(data, "n")
        n == IntOf(n_item.value)
        k_item == Item(data, "k")
        k == IntOf(k_item.value)
    IN  IF secret.state = "raised" THEN secret
        ELSE IF n_item.state = "raised" THEN n_item
        ELSE IF n.state = "raised" THEN n
        ELSE IF k_item.state = "raised" THEN k_item
        ELSE IF k.state = "raised" THEN k
        ELSE Returned(<<secret.value, n.value, k.value>>)

\* the number of random.randint calls create_shares(v, n, k) makes
RequestDraws(v, n, k) ==
    IF KindOf(v) = "str" THEN NumDraws(ValueOf(v), n, k) ELSE 0

\* self.shamir.create_shares(v, n, k) for a secret v of any kind: the checks
\* read of the secret only whether it is empty, then _string_to_bytes calls
\* v.encode
CreateSharesOf(v, n, k, draws, p) ==
    IF KindOf(v) = "str" THEN create_shares(ValueOf(v), n, k, draws, p)
    ELSE IF ValidationError(IF Truthy(v) THEN <<0>> ELSE <<>>, n, k) # ""
         THEN Raised(ValidationError(IF Truthy(v) THEN <<0>> ELSE <<>>, n, k))
    ELSE Raised(ErrNoAttribute(v, "encode"))

\* [line.strip() for line in parts_text.split('\n') if line.strip()]
StrippedLines(parts_text) ==
    LET pieces == SplitOn(parts_text, Newline)
        kept == SelectSeq(pieces, LAMBDA line : Strip(line) # <<>>)
    IN  [i \in 1..Len(kept) |-> Strip(kept[i])]

\* parts_text = data['parts'].strip() and lines = [...]
RecoverLines(data) ==
    LET parts == Item(data, "parts")
        parts_text == StripOf(parts.value)
    IN  IF parts.state = "raised" THEN parts
        ELSE IF parts_text.state = "raised" THEN parts_text
        ELSE Returned(StrippedLines(parts_text.value))

\* the response of handle_create_shares after create_shares
CreateResponse(shares) ==
    IF shares.state = "raised" THEN Response(FailureBody(shares.error))
    ELSE Response(SharesBody(shares.value))

\* the response of handle_recover_secret after reconstruct_secret
RecoverResponse(secret, shares) ==
    IF secret.state = "raised" THEN Response(FailureBody(secret.error))
    ELSE Response(SuccessBody(secret.value, Len(shares)))

(***************************************************************************)
(* Inputs the callers choose from.                                         *)
(***************************************************************************)
\* secrets: "", NUL, "A", "AB", e-acute (2 bytes), "A" e-acute, the euro sign
\* (3 bytes), U+1F600 (4 bytes) and a lone surrogate (not encodable)
Secrets == {<<>>, <<0>>, <<65>>, <<65, 66>>, <<233>>, <<65, 233>>, <<8364>>,
            <<128512>>, <<55296>>}
NRange == (0 - 1)..MaxN
KRange == (0 - 1)..(MaxN + 1)
\* the lists of values m calls of random.randint(0, p - 1) can return
DrawLists(m, p) == [1..m -> randint(0, p - 1)]

\* the secrets of one UTF-8 byte
OneByteSecrets ==
    {s \in Secrets : string_to_bytes(s).state = "returned"
                        /\ Len(string_to_bytes(s).value) = 1}
\* the calls <<secret, n, k>> of create_shares: every call that raises, and
\* the accepted calls that draw one coefficient (one byte, k = 2)
SplitCalls ==
    {c \in Secrets \X NRange \X KRange :
        \/ ValidationError(c[1], c[2], c[3]) # ""
        \/ string_to_bytes(c[1]).state = "raised"}
    \cup {<<s, nn, 2>> : s \in OneByteSecrets, nn \in 2..MaxN}
\* calls that draw two coefficients: "AB" 2-of-3, "A" 3-of-3, e-acute 2-of-2
TwoDrawCalls == {<<(<<65, 66>>), 3, 2>>, <<(<<65>>), 3, 3>>, <<(<<233>>), 2, 2>>}
\* shares a caller writes by hand: indices and value lists
IndexSample == {0 - 1, 0, 1, 2, PRIME + 1}
ValuesSample == {<<10>>, <<20>>, <<200>>, <<0 - 5>>, <<10, 20>>, <<300, 256>>,
                 <<20, 10, 200>>}
SuppliedShares == {<<i, v>> : i \in IndexSample, v \in ValuesSample}
\* arguments of a direct _mod_inverse call
InverseArgs == (0 - PRIME)..(2 * PRIME)
\* arguments of a direct _evaluate_polynomial call
PolyCoeffs == {0 - 300, 0 - 1, 0, 256, 1000}
PolyPoints == {0 - 258, 0 - 1, 0, 1, 2, PRIME, PRIME + 1}

\* the lists of at most m elements of S
SeqsUpTo(S, m) == UNION {[1..len -> S] : len \in 0..m}

\* shares handed to format_share_for_display by hand, the empty one included
WrittenShares == SuppliedShares \cup {<<i, <<>>>> : i \in IndexSample}

\* 10 ^ (m - 1), the least integer of m digits, for m > 9
TenToThe(m) == Huge(FALSE, <<1>> \o [i \in 1..(m - 1) |-> 0])

\* shares written by hand with integers of more than nine digits:
\* (2147483648, [0, 256]), (-1, [-10^10, 5]), (1, [10^4299]),
\* (1, [10^4300]), (1, [7, -10^4300]) and (10^4300, [5])
LargeShares ==
    << <<Huge(FALSE, <<2, 1, 4, 7, 4, 8, 3, 6, 4, 8>>), <<0, 256>>>>,
       <<0 - 1, <<Negated(TenToThe(11)), 5>>>>,
       <<1, <<TenToThe(IntMaxStrDigits)>>>>,
       <<1, <<TenToThe(IntMaxStrDigits + 1)>>>>,
       <<1, <<7, Negated(TenToThe(IntMaxStrDigits + 1))>>>>,
       <<TenToThe(IntMaxStrDigits + 1), <<5>>>> >>

\* characters of the share texts a user types
\* 0 1 - _ blank : , a, the Arabic-Indic digit three (U+0663) and the file
\* separator U+001C, which str.strip() drops and int() does not
TextAlphabet == {48, 49, Minus, Underscore, 32, Colon, Comma, 97, 1635, 28}

\* "1:", "abc:1,2,3", "1,2,3", "1:10,,20", "1:10,20,", " 12 : 10 , 20 ",
\* "-1:300,-5", "\f1:5", "\uff11:\u0967\u0966", "1:\xa05\u3000,+2",
\* "1:1\x1c2", and "1:" followed by IntMaxStrDigits + 1 digits 1
TextExamples ==
    { <<49, Colon>>,
      <<97, 98, 99, Colon, 49, Comma, 50, Comma, 51>>,
      <<49, Comma, 50, Comma, 51>>,
      <<49, Colon, 49, 48, Comma, Comma, 50, 48>>,
      <<49, Colon, 49, 48, Comma, 50, 48, Comma>>,
      <<32, 49, 50, 32, Colon, 32, 49, 48, 32, Comma, 32, 50, 48, 32>>,
      <<Minus, 49, Colon, 51, 48, 48, Comma, Minus, 53>>,
      <<12, 49, Colon, 53>>,
      <<65297, Colon, 2407, 2406>>,
      <<49, Colon, 160, 53, 12288, Comma, Plus, 50>>,
      <<49, Colon, 49, 28, 50>>,
      <<49, Colon>> \o [i \in 1..(IntMaxStrDigits + 1) |-> 49] }

\* the texts handed to parse_share_from_input by hand
TypedTexts == SeqsUpTo(TextAlphabet, MaxText) \cup TextExamples

\* lines of the 'parts' field of a recovery request:
\* "1:10", "2:20", " 2:20 ", "", " ", "x", "1:", "0:200", "3:10,20",
\* "\x0b\u0662:20\x85"
LineSample ==
    { <<49, Colon, 49, 48>>,
      <<50, Colon, 50, 48>>,
      <<32, 50, Colon, 50, 48, 32>>,
      <<>>,
      <<32>>,
      <<120>>,
      <<49, Colon>>,
      <<48, Colon, 50, 48, 48>>,
      <<51, Colon, 49, 48, Comma, 50, 48>>,
      <<11, 1634, Colon, 50, 48, 133>> }

RECURSIVE JoinLines(_)
\* '\n'.join(lines)
JoinLines(lines) ==
    IF lines = <<>> THEN <<>>
    ELSE IF Len(lines) = 1 THEN lines[1]
    ELSE lines[1] \o <<Newline>> \o JoinLines(Tail(lines))

\* "1:10\n2:20"
TwoGoodLines == JoinLines(<< <<49, Colon, 49, 48>>, <<50, Colon, 50, 48>> >>)

\* the number of bytes of every body sent: its JSON text, then blanks
BodySize == 200

\* a request: the method, the path, the Content-Length header (None when
\* there is none), the number of bytes of body the client sends, what they
\* decode to as UTF-8 JSON, and what the bytes the handler reads decode to
\* when the header announces fewer
Request(method, path, length, size, data, cut) ==
    [method |-> method, path |-> path, length |-> length, size |-> size,
     data |-> data, cut |-> cut]

\* the characters of a list of digits
DigitsText(digits) == [i \in 1..Len(digits) |-> Zero + digits[i]]

\* str(BodySize)
SizeText == IntToText(BodySize).value

\* the Content-Length headers sent with a body of BodySize bytes: none,
\* "abc", "", "-5", "-1", "0", BodySize - 1, BodySize + 5, BodySize written
\* with blanks around, with a sign and with an underscore, 2^31, 2^63 - 34,
\* 2^63 - 33, 2^63, -2^63, -(2^63 + 1), 4301 digits 1, the same after a
\* minus, and 4300 zeros followed by 23
HeaderSample ==
    { JNull,
      JText(<<97, 98, 99>>),
      JText(<<>>),
      JText(<<Minus, 53>>),
      JText(<<Minus, 49>>),
      JText(<<Zero>>),
      JText(IntToText(BodySize - 1).value),
      JText(IntToText(BodySize + 5).value),
      JText(<<32>> \o SizeText \o <<32>>),
      JText(<<Plus>> \o SizeText),
      JText(<<SizeText[1], Underscore>> \o Tail(SizeText)),
      JText(<<50, 49, 52, 55, 52, 56, 51, 54, 52, 56>>),
      JText(DigitsText(LargestBytes)),
      JText(DigitsText([LargestBytes EXCEPT ![19] = 5])),
      JText(DigitsText(TwoTo63)),
      JText(<<Minus>> \o DigitsText(TwoTo63)),
      JText(<<Minus>> \o DigitsText([TwoTo63 EXCEPT ![19] = 9])),
      JText([i \in 1..(IntMaxStrDigits + 1) |-> 49]),
      JText(<<Minus>> \o [i \in 1..(IntMaxStrDigits + 1) |-> 49]),
      JText([i \in 1..IntMaxStrDigits |-> Zero] \o <<50, 51>>) }

\* what the first bytes of a body decode to when the header announces 0 of
\* them (no JSON value), or all but the last blank
Cut(length, data) ==
    IF length = JText(<<Zero>>) THEN Raised(ErrJson) ELSE data

\* a POST of a body of BodySize bytes with the true Content-Length
Post(path, data) ==
    Request("POST", path, JText(SizeText), BodySize, data, data)

\* a POST of a body of BodySize bytes with another Content-Length
PostWithHeader(path, length, data) ==
    Request("POST", path, length, BodySize, data, Cut(length, data))

\* JSON values that are no object: null, true, 5, 2.5, NaN, [1], "abc"
NoObjects ==
    << JNull, Json("bool", TRUE), Json("int", 5), Json("float", 25),
       Json("nan", <<>>), Json("list", <<Json("int", 1)>>),
       JText(<<97, 98, 99>>) >>

\* bodies that are no JSON object: bytes that are not UTF-8, a text that is
\* not JSON, and the values of NoObjects
NoObjectBodies ==
    <<Raised(ErrDecode), Raised(ErrJson)>>
        \o [i \in 1..Len(NoObjects) |-> Returned(NoObjects[i])]

\* {"parts": parts}
PartsData(parts) == Returned(JDict([parts |-> parts]))

\* values of 'parts' that are no text: 5, null, [1], {}, 2.5, true
NoTexts ==
    << Json("int", 5), JNull, Json("list", <<Json("int", 1)>>), JEmptyDict,
       Json("float", 25), Json("bool", TRUE) >>

\* the requests POSTed to /api/recover with an object whose 'parts' is a
\* text: the lines of LineSample with the true Content-Length, and every
\* header of HeaderSample
Requests ==
    { Post("/api/recover", PartsData(JText(JoinLines(lines)))) :
          lines \in SeqsUpTo(LineSample, MaxLines) }
    \cup { PostWithHeader("/api/recover", length, PartsData(JText(parts))) :
              length \in HeaderSample, parts \in {<<>>, TwoGoodLines} }

\* the other bodies POSTed to /api/recover: no object, {}, and an object
\* whose 'parts' is no text
OtherBodies ==
    NoObjectBodies \o <<Returned(JEmptyDict)>>
        \o [i \in 1..Len(NoTexts) |-> PartsData(NoTexts[i])]

\* the requests that POST them, and the POST of no body at all
OtherRequests ==
    [i \in 1..Len(OtherBodies) |-> Post("/api/recover", OtherBodies[i])]
        \o <<Request("POST", "/api/recover", JText(<<Zero>>), 0,
                     Raised(ErrJson), Raised(ErrJson))>>

\* {"secret": s, "n": nn, "k": kk}
CreateData(s, nn, kk) == Returned(JDict([secret |-> s, n |-> nn, k |-> kk]))

\* values of 'n' and 'k' that are no JSON integer: 2.5, 2.9, -0.5, "3",
\* " 3 ", "x", true, null, NaN, Infinity, -Infinity, [1], {}
NoIntegers ==
    << Json("float", 25), Json("float", 29), Json("float", 0 - 5),
       JText(<<51>>), JText(<<32, 51, 32>>), JText(<<120>>),
       Json("bool", TRUE), JNull, Json("nan", <<>>), Json("inf", FALSE),
       Json("inf", TRUE), Json("list", <<Json("int", 1)>>), JEmptyDict >>

\* values of 'secret' that are no text: 5, 0, null, true, false, 2.5, [],
\* [1], {}
NoSecrets ==
    << Json("int", 5), Json("int", 0), JNull, Json("bool", TRUE),
       Json("bool", FALSE), Json("float", 25), Json("list", <<>>),
       Json("list", <<Json("int", 1)>>), JEmptyDict >>

\* the requests POSTed to /api/create with an object whose 'secret' is a
\* text and whose 'n' and 'k' are integers: the calls of SplitCalls with the
\* true Content-Length, and every header of HeaderSample
CreateRequests ==
    { Post("/api/create",
           CreateData(JText(c[1]), Json("int", c[2]), Json("int", c[3]))) :
          c \in SplitCalls }
    \cup { PostWithHeader("/api/create", length,
                          CreateData(JText(<<65>>), Json("int", 3),
                                     Json("int", 2))) :
              length \in HeaderSample }

\* the other bodies POSTed to /api/create: no object; "A" with an n, then a
\* k, that is no JSON integer; a secret that is no text, with n = 3 and with
\* n = 1; objects that lack a key
OtherCreateBodies ==
    NoObjectBodies
        \o [i \in 1..Len(NoIntegers) |->
               CreateData(JText(<<65>>), NoIntegers[i], Json("int", 2))]
        \o [i \in 1..Len(NoIntegers) |->
               CreateData(JText(<<65>>), Json("int", 3), NoIntegers[i])]
        \o [i \in 1..Len(NoSecrets) |->
               CreateData(NoSecrets[i], Json("int", 3), Json("int", 2))]
        \o [i \in 1..Len(NoSecrets) |->
               CreateData(NoSecrets[i], Json("int", 1), Json("int", 2))]
        \o << Returned(JEmptyDict),
              Returned(JDict([secret |-> JText(<<65>>)])),
              Returned(JDict([secret |-> JText(<<65>>),
                              n |-> Json("int", 3)])),
              Returned(JDict([n |-> Json("int", 3), k |-> Json("int", 2)])) >>

\* the requests that POST them
OtherCreateRequests ==
    [i \in 1..Len(OtherCreateBodies) |->
        Post("/api/create", OtherCreateBodies[i])]

\* the paths of the pages, and others
Paths ==
    {"/", "/index.html", "/style.css", "/script.js", "/api/create",
     "/api/recover", "/x"}

\* the GET requests
GetRequests ==
    { Request("GET", path, JNull, 0, Raised(ErrJson), Raised(ErrJson)) :
          path \in Paths }

\* the requests POSTed to a path that is none of the two
OtherPosts ==
    { PostWithHeader(path, length, PartsData(JText(TwoGoodLines))) :
          path \in Paths \ {"/api/create", "/api/recover"},
          length \in {JText(SizeText), JText(IntToText(BodySize + 5).value)} }

\* the lists of distinct positions of a list of n shares: every non-empty
\* subset in every order; of a list of more than MaxN shares, every single
\* position
Picks(n) ==
    IF n > MaxN THEN {<<i>> : i \in 1..n}
    ELSE {q \in SeqsUpTo(1..n, n) :
             /\ q # <<>>
             /\ \A a, b \in 1..Len(q) : a # b => q[a] # q[b]}

(***************************************************************************)
(* State: the engine's modulus, and the calls made with their outcomes.    *)
(***************************************************************************)
\* no request received
NoRequest == Request("", "", JNull, 0, Raised(ErrJson), Raised(ErrJson))

\* the callers of the core: two threads
Threads == {1, 2}

\* a thread that has made no call: the operation, the engine, the line it
\* stands at (0 outside a call), the arguments (of a list: its address, and
\* its value when it was passed), the local variables, the coefficients
\* drawn, and the outcome
NoCall ==
    [op |-> "", engine |-> 0, line |-> 0,
     secret |-> <<>>, n |-> 0, k |-> 0, shares |-> 0, index |-> 0,
     text |-> <<>>, passed |-> <<>>,
     secret_bytes |-> <<>>, new_shares |-> 0, position |-> 0,
     coeffs |-> <<>>, i |-> 0, y |-> 0, share_length |-> 0,
     new_bytes |-> 0, x_values |-> <<>>, y_values |-> <<>>,
     secret_byte |-> 0, drawn |-> <<>>, outcome |-> NotCalled]

VARIABLES
    prime,        \* self.prime
    secret,       \* arguments of the create_shares call
    n,
    k,
    draws,        \* what random.randint returned during it, in order
    created,      \* its outcome
    supplied,     \* argument of the reconstruct_secret call
    recovered,    \* its outcome
    inverse_arg,  \* argument of the _mod_inverse call
    inverse,      \* its outcome
    poly_args,    \* arguments <<coeffs, x>> of the _evaluate_polynomial call
    poly,         \* its outcome
    format_arg,   \* arguments <<index, share>> of format_share_for_display
    formatted,    \* its outcome
    share_text,   \* argument of the parse_share_from_input call
    parsed,       \* its outcome
    prime2,       \* self.prime of a second engine
    request,      \* the request being answered
    handler,      \* where its handler stands: "" (not called), "length"
                  \* (content_length assigned), "read" (in rfile.read),
                  \* "data" (data assigned), "call" (before the call of
                  \* the core) or "end"
    closed,       \* the client has closed its side of the connection
    content_length,  \* the outcome of int(self.headers['Content-Length'])
    data,         \* the outcome of reading the body as JSON
    arguments,    \* what the handler passes to the core: <<secret, n, k>>
                  \* or shares
    lines,        \* the outcome of reading the lines of 'parts'
    responses,    \* what the handler sent, in order
    heap,         \* the lists of the callers and of the calls, by address
    calls         \* the call each thread is in

splitVars == <<secret, n, k, draws, created>>
joinVars == <<supplied, recovered>>
fieldVars == <<inverse_arg, inverse, poly_args, poly>>

textVars == <<format_arg, formatted, share_text, parsed>>

webVars ==
    <<request, handler, closed, content_length, data, arguments, lines,
      responses>>

threadVars == <<heap, calls>>

vars == <<prime, prime2, splitVars, joinVars, fieldVars, textVars, webVars,
          threadVars>>

\* ShamirSecretSharing(): no call made yet
Init ==
    /\ prime = PRIME
    /\ secret = <<>>
    /\ n = 0
    /\ k = 0
    /\ draws = <<>>
    /\ created = NotCalled
    /\ supplied = <<>>
    /\ recovered = NotCalled
    /\ inverse_arg = 0
    /\ inverse = NotCalled
    /\ poly_args = <<>>
    /\ poly = NotCalled
    /\ format_arg = <<>>
    /\ formatted = NotCalled
    /\ share_text = <<>>
    /\ parsed = NotCalled
    /\ prime2 = PRIME
    /\ request = NoRequest
    /\ handler = ""
    /\ closed = FALSE
    /\ content_length = NotCalled
    /\ data = NotCalled
    /\ arguments = NotCalled
    /\ lines = NotCalled
    /\ responses = <<>>
    /\ heap = <<>>
    /\ calls = [t \in Threads |-> NoCall]

Fresh ==
    /\ created.state = "none" /\ recovered.state = "none"
    /\ inverse.state = "none" /\ poly.state = "none"
    /\ formatted.state = "none" /\ parsed.state = "none"
    /\ request.method = ""
    /\ \A t \in Threads : calls[t].op = ""

\* shamir.create_shares(s, nn, kk) on a fresh engine
CreateShares ==
    /\ Fresh
    /\ \E c \in SplitCalls :
         \E d \in DrawLists(NumDraws(c[1], c[2], c[3]), prime) :
              /\ secret' = c[1]
              /\ n' = c[2]
              /\ k' = c[3]
              /\ draws' = d
              /\ created' = create_shares(c[1], c[2], c[3], d, prime)
    /\ UNCHANGED <<prime, prime2, webVars, threadVars, joinVars, fieldVars, textVars>>

\* shamir.create_shares(s, nn, kk) on a fresh engine, for the calls that
\* draw two coefficients
CreateSharesTwoDraws ==
    /\ Fresh
    /\ \E c \in TwoDrawCalls :
         \E d \in DrawLists(NumDraws(c[1], c[2], c[3]), prime) :
              /\ secret' = c[1]
              /\ n' = c[2]
              /\ k' = c[3]
              /\ draws' = d
              /\ created' = create_shares(c[1], c[2], c[3], d, prime)
    /\ UNCHANGED <<prime, prime2, webVars, threadVars, joinVars, fieldVars, textVars>>

\* shamir.reconstruct_secret on some of the shares create_shares returned,
\* in any order; a run makes one reconstruct_secret call (main.py, run_cli)
ReconstructFromSplit ==
    /\ created.state = "returned"
    /\ recovered.state = "none"
    /\ formatted.state = "none"
    /\ \E q \in Picks(Len(created.value)) :
         /\ supplied' = [j \in 1..Len(q) |-> created.value[q[j]]]
         /\ recovered' = reconstruct_secret(supplied', prime)
    /\ UNCHANGED <<prime, prime2, webVars, threadVars, splitVars, fieldVars, textVars>>

\* shamir.reconstruct_secret on a share list the caller wrote
ReconstructSupplied ==
    /\ Fresh
    /\ \E shares \in SeqsUpTo(SuppliedShares, MaxSupplied) :
         /\ supplied' = shares
         /\ recovered' = reconstruct_secret(shares, prime)
    /\ UNCHANGED <<prime, prime2, webVars, threadVars, splitVars, fieldVars, textVars>>

\* shamir._mod_inverse(a, shamir.prime)
ModInverse ==
    /\ Fresh
    /\ \E a \in InverseArgs :
         /\ inverse_arg' = a
         /\ inverse' = Returned(mod_inverse(a, prime))
    /\ UNCHANGED <<prime, prime2, webVars, threadVars, splitVars, joinVars, poly_args, poly, textVars>>

\* shamir._evaluate_polynomial(coeffs, x)
EvaluatePolynomial ==
    /\ Fresh
    /\ \E coeffs \in SeqsUpTo(PolyCoeffs, 2), x \in PolyPoints :
         /\ poly_args' = <<coeffs, x>>
         /\ poly' = Returned(evaluate_polynomial(coeffs, x, prime))
    /\ UNCHANGED <<prime, prime2, webVars, threadVars, splitVars, joinVars, inverse_arg, inverse, textVars>>

\* format_share_for_display(index, share) on a share create_shares returned
FormatCreated ==
    /\ created.state = "returned"
    /\ recovered.state = "none"
    /\ formatted.state = "none"
    /\ \E i \in 1..Len(created.value) :
         /\ format_arg' = created.value[i]
         /\ formatted' = format_share_for_display(created.value[i][1],
                                                 created.value[i][2])
    /\ UNCHANGED <<prime, prime2, webVars, threadVars, splitVars, joinVars, fieldVars, share_text, parsed>>

\* format_share_for_display(index, share) on a share the caller wrote
FormatWritten ==
    /\ Fresh
    /\ \/ \E sh \in WrittenShares :
            /\ format_arg' = sh
            /\ formatted' = format_share_for_display(sh[1], sh[2])
       \/ \E i \in 1..Len(LargeShares) :
            /\ format_arg' = LargeShares[i]
            /\ formatted' = format_share_for_display(LargeShares[i][1],
                                                    LargeShares[i][2])
    /\ UNCHANGED <<prime, prime2, webVars, threadVars, splitVars, joinVars, fieldVars, share_text, parsed>>

\* parse_share_from_input on the text format_share_for_display produced
ParseFormatted ==
    /\ formatted.state = "returned"
    /\ parsed.state = "none"
    /\ share_text' = formatted.value
    /\ parsed' = parse_share_from_input(formatted.value)
    /\ UNCHANGED <<prime, prime2, webVars, threadVars, splitVars, joinVars, fieldVars, format_arg, formatted>>

\* parse_share_from_input on a text the user typed
ParseTyped ==
    /\ Fresh
    /\ \E t \in TypedTexts :
         /\ share_text' = t
         /\ parsed' = parse_share_from_input(t)
    /\ UNCHANGED <<prime, prime2, webVars, threadVars, splitVars, joinVars, fieldVars, format_arg, formatted>>

\* the client closes its side of the connection: the stream the handler
\* reads ends after the bytes sent
ClientCloses ==
    /\ handler # ""
    /\ ~closed
    /\ closed' = TRUE
    /\ UNCHANGED <<request, handler, content_length, data, arguments,
                   lines, responses>>
    /\ UNCHANGED <<prime, prime2, threadVars, splitVars, joinVars, fieldVars, textVars>>

\* a client sends a GET request: do_GET, to its end
DoGet ==
    /\ Fresh
    /\ \E req \in GetRequests :
         /\ request' = req
         /\ responses' = <<do_GET(req)>>
    /\ handler' = "end"
    /\ UNCHANGED <<closed, content_length, data, arguments, lines>>
    /\ UNCHANGED <<prime, prime2, threadVars, splitVars, joinVars, fieldVars, textVars>>

\* the outcome of int(), as the state keeps it: an integer with the way it
\* is held before it
Held(outcome) ==
    IF outcome.state = "returned"
    THEN Returned(<<IF IsHuge(outcome.value) THEN "digits" ELSE "number",
                    outcome.value>>)
    ELSE outcome

\* do_POST on the request req, to the end of
\* content_length = int(self.headers['Content-Length']); for another path,
\* send_error(404)
Posted(req) ==
    /\ request' = req
    /\ IF req.path \notin {"/api/create", "/api/recover"}
       THEN /\ handler' = "end"
            /\ responses' = <<send_error_404>>
            /\ content_length' = NotCalled
       ELSE /\ content_length' = Held(IntOf(req.length))
            /\ handler' =
                   IF content_length'.state = "raised" THEN "end" ELSE "length"
            /\ responses' =
                   IF content_length'.state = "raised"
                   THEN <<Response(FailureBody(content_length'.error))>>
                   ELSE <<>>

\* a client sends a POST request: do_POST and the first line of the handler
DoPost ==
    /\ Fresh
    /\ \/ \E req \in Requests : Posted(req)
       \/ \E i \in 1..Len(OtherRequests) : Posted(OtherRequests[i])
       \/ \E req \in CreateRequests : Posted(req)
       \/ \E i \in 1..Len(OtherCreateRequests) :
            Posted(OtherCreateRequests[i])
       \/ \E req \in OtherPosts : Posted(req)
    /\ UNCHANGED <<closed, data, arguments, lines>>
    /\ UNCHANGED <<prime, prime2, threadVars, splitVars, joinVars, fieldVars, textVars>>

\* the handler is at "length", or in a read that the end of the stream ends:
\* post_data = self.rfile.read(content_length) and
\* data = json.loads(post_data.decode('utf-8')). The host has the memory of
\* a large buffer or not. The read returns, raises, or waits for the client.
ReadBody(allocates) ==
    /\ data' = ReadJson(request, content_length.value[2], closed, allocates)
    /\ handler' = IF data'.state = "waiting" THEN "read"
                  ELSE IF data'.state = "raised" THEN "end"
                  ELSE "data"
    /\ responses' = IF data'.state = "raised"
                    THEN <<Response(FailureBody(data'.error))>>
                    ELSE <<>>
    /\ UNCHANGED <<request, closed, content_length, arguments, lines>>
    /\ UNCHANGED <<prime, prime2, threadVars, splitVars, joinVars, fieldVars, textVars>>

\* the handler calls rfile.read
Read613 ==
    /\ handler = "length"
    /\ \E allocates \in BOOLEAN : ReadBody(allocates)

\* rfile.read returns at the end of the stream with the bytes that came
ReadReturns ==
    /\ handler = "read"
    /\ closed
    /\ ReadBody(TRUE)

\* handle_create_shares from secret = data['secret'] to k = int(data['k'])
ReadArguments ==
    /\ handler = "data"
    /\ request.path = "/api/create"
    /\ arguments' = CreateArguments(data.value)
    /\ handler' = IF arguments'.state = "raised" THEN "end" ELSE "call"
    /\ responses' = IF arguments'.state = "raised"
                    THEN <<Response(FailureBody(arguments'.error))>>
                    ELSE <<>>
    /\ UNCHANGED <<request, closed, content_length, data, lines>>
    /\ UNCHANGED <<prime, prime2, threadVars, splitVars, joinVars, fieldVars, textVars>>

\* handle_create_shares from shares = self.shamir.create_shares(secret, n, k)
\* to its end
CreateForRequest ==
    /\ handler = "call"
    /\ request.path = "/api/create"
    /\ \E d \in DrawLists(RequestDraws(arguments.value[1],
                                       arguments.value[2],
                                       arguments.value[3]), prime) :
         /\ draws' = d
         /\ responses' =
                <<CreateResponse(
                      CreateSharesOf(arguments.value[1], arguments.value[2],
                                     arguments.value[3], d, prime))>>
    /\ handler' = "end"
    /\ UNCHANGED <<request, closed, content_length, data, arguments, lines>>
    /\ UNCHANGED <<prime, prime2, threadVars, secret, n, k, created,
                   joinVars, fieldVars, textVars>>

\* handle_recover_secret from parts_text = data['parts'].strip() to
\* shares = []
ReadLines ==
    /\ handler = "data"
    /\ request.path = "/api/recover"
    /\ lines' = RecoverLines(data.value)
    /\ handler' = IF lines'.state = "raised" THEN "end" ELSE "loop"
    /\ arguments' = IF lines'.state = "raised" THEN arguments
                    ELSE Returned(<<>>)
    /\ responses' = IF lines'.state = "raised"
                    THEN <<Response(FailureBody(lines'.error))>>
                    ELSE <<>>
    /\ UNCHANGED <<request, closed, content_length, data>>
    /\ UNCHANGED <<prime, prime2, threadVars, splitVars, joinVars, fieldVars, textVars>>

\* one turn of the loop over the lines, share being the outcome of
\* parse_share_from_input(line): shares.append((index, values)), or the
\* error that ends the handler
Appended(share) ==
    IF share.state = "raised"
    THEN /\ handler' = "end"
         /\ responses' = <<Response(FailureBody(share.error))>>
         /\ UNCHANGED arguments
    ELSE /\ arguments' = Returned(Append(arguments.value, share.value))
         /\ UNCHANGED <<handler, responses>>

\* for line in lines: the next line, or the end of the loop
ParseLine ==
    /\ handler = "loop"
    /\ IF Len(arguments.value) < Len(lines.value)
       THEN Appended(parse_share_from_input(
                         lines.value[Len(arguments.value) + 1]))
       ELSE /\ handler' = "call"
            /\ UNCHANGED <<arguments, responses>>
    /\ UNCHANGED <<request, closed, content_length, data, lines>>
    /\ UNCHANGED <<prime, prime2, threadVars, splitVars, joinVars, fieldVars, textVars>>

\* handle_recover_secret from
\* secret = self.shamir.reconstruct_secret(shares) to its end
RecoverForRequest ==
    /\ handler = "call"
    /\ request.path = "/api/recover"
    /\ responses' =
           <<RecoverResponse(reconstruct_secret(arguments.value, prime),
                             arguments.value)>>
    /\ handler' = "end"
    /\ UNCHANGED <<request, closed, content_length, data, arguments, lines>>
    /\ UNCHANGED <<prime, prime2, threadVars, splitVars, joinVars, fieldVars, textVars>>

\* the core, called directly
Next ==
    \/ CreateShares
    \/ ReconstructFromSplit
    \/ ReconstructSupplied
    \/ ModInverse
    \/ EvaluatePolynomial
    \/ FormatCreated
    \/ FormatWritten
    \/ ParseFormatted
    \/ ParseTyped

Spec == Init /\ [][Next]_vars

\* the web server: one request, its handler, and the client
NextWeb ==
    \/ DoGet
    \/ DoPost
    \/ ClientCloses
    \/ Read613
    \/ ReadReturns
    \/ ReadArguments
    \/ CreateForRequest
    \/ ReadLines
    \/ ParseLine
    \/ RecoverForRequest

\* a handler that can take its next step takes it, and a read that waits
\* returns once the stream has ended; nothing makes a client end it
SpecWeb ==
    /\ Init
    /\ [][NextWeb]_vars
    /\ WF_vars(Read613)
    /\ WF_vars(ReadReturns)
    /\ WF_vars(ReadArguments)
    /\ WF_vars(CreateForRequest)
    /\ WF_vars(ReadLines)
    /\ WF_vars(ParseLine)
    /\ WF_vars(RecoverForRequest)

\* the splits alone, those of two draws included, and their recombination
NextSplit == CreateShares \/ CreateSharesTwoDraws \/ ReconstructFromSplit

SpecSplit == Init /\ [][NextSplit]_vars

(***************************************************************************)
(* Properties.                                                             *)
(***************************************************************************)
\* a reconstruct_secret call was made on shares of the split in the state
Recombined == created.state = "returned" /\ recovered.state # "none"

\* the bytes of the secret that was split
SplitBytes == string_to_bytes(secret).value

\* the indices of the supplied shares
SuppliedIndices == {supplied[s][1] : s \in 1..Len(supplied)}

SomeDrawNonZero == \E d \in 1..Len(draws) : draws[d] # 0

\* C1 (round trip): reconstruct_secret on any k of the n shares of
\* create_shares(S, n, k), in any order and for any coefficients drawn,
\* returns exactly S.
C1_RoundTrip ==
    (Recombined /\ Len(supplied) = k) => recovered = Returned(secret)

\* "AB" split 2-of-3 with non-zero coefficients, recovered from shares 3 and 1
C1_Witness ==
    /\ Recombined
    /\ secret = <<65, 66>> /\ n = 3 /\ k = 2
    /\ \A d \in 1..Len(draws) : draws[d] # 0
    /\ Len(supplied) = 2 /\ supplied[1][1] = 3 /\ supplied[2][1] = 1
    /\ recovered = Returned(<<65, 66>>)

\* C5 (superset): reconstruct_secret on any m of the n shares, k <= m <= n,
\* returns exactly S.
C5_Superset ==
    (Recombined /\ Len(supplied) >= k) => recovered = Returned(secret)

\* all 3 shares of a 2-of-3 split of a two-byte secret, out of order
C5_Witness ==
    /\ Recombined
    /\ n = 3 /\ k = 2 /\ Len(SplitBytes) = 2 /\ SomeDrawNonZero
    /\ Len(supplied) = 3 /\ supplied[1][1] = 2
    /\ recovered = Returned(secret)

\* C10 (index bounds): an accepted create_shares returns exactly n shares
\* with indices 1, 2, ..., n in that order.
C10_IndexBounds ==
    created.state = "returned" =>
        /\ Len(created.value) = n
        /\ \A i \in 1..Len(created.value) : created.value[i][1] = i

C10_Witness ==
    /\ created.state = "returned" /\ n = 3 /\ k = 3
    /\ Len(created.value) = 3 /\ created.value[3][1] = 3

\* C3 (duplicate index rejection), as claimed: reconstruct_secret raises
\* whenever two of the supplied shares have the same x-coordinate (equal
\* indices, or indices congruent modulo P).
C3_DuplicateIndexRaises ==
    (/\ recovered.state # "none"
     /\ \E a, b \in 1..Len(supplied) :
            a # b /\ supplied[a][1] % prime = supplied[b][1] % prime)
    => recovered.state = "raised"

\* C4 (inverse of zero), as claimed: _mod_inverse raises whenever its
\* argument is congruent to 0 modulo P.
C4_InverseOfZeroRaises ==
    (inverse.state # "none" /\ inverse_arg % prime = 0)
    => inverse.state = "raised"

\* the coefficients create_shares used for the byte at position idx
CoeffsAt(idx) == Coeffs(SplitBytes, k, draws, idx)

\* the supplied shares are fewer than k shares of the split
UnderThreshold == Recombined /\ Len(supplied) < k

\* C6 (under-threshold output is wrong), as claimed: the bytes recovered
\* from fewer than k shares of a split differ from the bytes of S.
C6_UnderThresholdDiffers ==
    UnderThreshold => SecretBytes(supplied, prime) # SplitBytes

\* C6 as amended: when n < P, so that the indices 1..n are distinct and not
\* 0 modulo P, from exactly k-1 shares the byte recovered at a position
\* differs from the byte of S there exactly when the highest coefficient
\* drawn for that byte is not 0, except that an interpolated 256 folds to 0
\* and then equals a byte 0 of S; and from any fewer than k shares the byte
\* of S is recovered when every coefficient drawn for it is 0.
C6_UnderThresholdAmended ==
    (UnderThreshold /\ n < PRIME) =>
        \A idx \in 1..Len(SplitBytes) :
            LET b == SplitBytes[idx]
                v == SecretValue(supplied, idx, prime)
                c == CoeffsAt(idx)
            IN  /\ (\A j \in 2..k : c[j] = 0) => FoldByte(v) = b
                /\ Len(supplied) = k - 1 =>
                      ((FoldByte(v) = b) <=> (c[k] = 0 \/ (v = 256 /\ b = 0)))

\* two of the shares of a 3-of-3 split of "A" whose highest coefficient is 0
\* and whose other coefficient is not: the byte of S comes back
C6_Witness ==
    /\ UnderThreshold
    /\ secret = <<65>> /\ k = 3 /\ Len(supplied) = 2
    /\ draws[1] # 0 /\ draws[2] = 0
    /\ SecretBytes(supplied, prime) = <<65>>

\* C7 (under-threshold input is no error), as claimed: reconstruct_secret
\* on fewer than k shares of a split returns a value and raises nothing.
C7_UnderThresholdReturns ==
    UnderThreshold => recovered.state = "returned"

\* C7 as amended: on fewer than k shares of a split reconstruct_secret
\* raises neither of its own errors and interpolates every byte; it returns
\* the text whose UTF-8 bytes are the interpolated bytes, and when those
\* bytes are no UTF-8 text the conversion raises UnicodeDecodeError.
C7_UnderThresholdAmended ==
    UnderThreshold =>
        /\ recovered.state = "raised" => recovered.error = ErrDecode
        /\ recovered.state = "returned" =>
              string_to_bytes(recovered.value) =
                  Returned(SecretBytes(supplied, prime))

\* one share of a 2-of-n split of "A" with coefficient 128: the byte
\* recovered is 193 or more, which starts no UTF-8 text
C7_Witness ==
    /\ UnderThreshold
    /\ secret = <<65>> /\ k = 2 /\ draws = <<128>> /\ Len(supplied) = 1
    /\ SecretBytes(supplied, prime)[1] >= 128
    /\ recovered = Raised(ErrDecode)

ValidationErrors == {ErrSecretEmpty, ErrKGreaterN, ErrKTooSmall, ErrNTooSmall}

\* C8 (parameter validation): create_shares raises one of its validation
\* errors, and returns nothing, exactly when the secret is empty or n < 2
\* or k < 2 or k > n.
C8_ParameterValidation ==
    created.state # "none" =>
        ((secret = <<>> \/ n < 2 \/ k < 2 \/ k > n)
         <=> (created.state = "raised" /\ created.error \in ValidationErrors))

\* a non-empty secret with n = 3 and k = 1 is refused
C8_Witness ==
    /\ created.state = "raised" /\ secret # <<>> /\ n = 3 /\ k = 1
    /\ created.error \in ValidationErrors

\* the precondition an error message names, on the arguments
Violates(e, s, nn, kk) ==
    IF e = ErrSecretEmpty THEN s = <<>>
    ELSE IF e = ErrKGreaterN THEN kk > nn
    ELSE IF e = ErrKTooSmall THEN kk < 2
    ELSE IF e = ErrNTooSmall THEN nn < 2
    ELSE FALSE

\* C9 (distinct validation errors), as claimed: every precondition the
\* call violates has an input on which create_shares reports that
\* precondition's error, and the error reported names a precondition the
\* input violates.
C9_EachViolationReported ==
    created.state # "none" =>
        /\ \A e \in ValidationErrors :
              Violates(e, secret, n, k) =>
                  \E s \in Secrets, nn \in NRange, kk \in KRange :
                      ValidationError(s, nn, kk) = e
        /\ (created.state = "raised" /\ created.error \in ValidationErrors)
              => Violates(created.error, secret, n, k)

(***************************************************************************)
(* Threshold secrecy: splits of one byte, observed through k-1 shares.     *)
(***************************************************************************)
\* <<secret, n, k>> of the splits observed: NUL and "A" 2-of-2 and 2-of-3,
\* "A" 3-of-3
SecrecyCalls ==
    {<<(<<0>>), 2, 2>>, <<(<<0>>), 3, 2>>, <<(<<65>>), 2, 2>>,
     <<(<<65>>), 3, 2>>, <<(<<65>>), 3, 3>>}
\* the splits whose k-1 shares are explained: every split of one draw, and
\* of the splits of two draws those whose draws are 0, 128 or 256
Explained ==
    \/ Len(draws) = 1
    \/ \A j \in 1..Len(draws) : draws[j] \in {0, 128, PRIME - 1}
\* the other secret bytes the observed values are explained by: every byte
\* for the splits of one draw at 0, 128 or 256, a sample for the others
OtherBytes(kk) ==
    IF kk = 2 /\ draws[1] \in {0, 128, PRIME - 1} THEN 0..255
    ELSE IF kk = 2 THEN {0, 1, 65, 128, 255}
    ELSE {0, 255}

\* shamir.create_shares on a one-byte secret
SecrecySplit ==
    /\ Fresh
    /\ \E c \in SecrecyCalls :
         \E d \in DrawLists(NumDraws(c[1], c[2], c[3]), prime) :
              /\ secret' = c[1]
              /\ n' = c[2]
              /\ k' = c[3]
              /\ draws' = d
              /\ created' = create_shares(c[1], c[2], c[3], d, prime)
    /\ UNCHANGED <<prime, prime2, webVars, threadVars, joinVars, fieldVars, textVars>>

NextSecrecy == SecrecySplit \/ ReconstructFromSplit

SpecSecrecy == Init /\ [][NextSecrecy]_vars

\* the coefficient choices under which a split of byte b shows, at the
\* indices of the supplied shares, the values those shares hold at idx
Explanations(b, idx) ==
    {c \in [1..(k - 1) -> randint(0, prime - 1)] :
        \A s \in 1..Len(supplied) :
            evaluate_polynomial(<<b>> \o c, supplied[s][1], prime)
                = supplied[s][2][idx]}

\* C2 (threshold secrecy): what k-1 shares of a split show is shown, by
\* exactly one choice of the k-1 random coefficients, by the split of every
\* other secret byte too.
C2_ThresholdSecrecy ==
    (Recombined /\ Len(supplied) = k - 1 /\ Explained) =>
        \A idx \in 1..Len(SplitBytes) :
            \A b \in OtherBytes(k) : Cardinality(Explanations(b, idx)) = 1

\* shares 3 and 1 of a 3-of-3 split of "A" with non-zero coefficients
C2_Witness ==
    /\ Recombined
    /\ secret = <<65>> /\ k = 3 /\ draws = <<128, 128>>
    /\ Len(supplied) = 2 /\ supplied[1][1] = 3 /\ supplied[2][1] = 1
    /\ Cardinality(Explanations(0, 1)) = 1

(***************************************************************************)
(* Properties of the share lists and of the field results.                 *)
(***************************************************************************)
RECURSIVE Utf8Length(_)
\* number of bytes UTF-8 gives a text: 1 to 4 for each character
Utf8Length(text) ==
    IF text = <<>> THEN 0
    ELSE (IF text[1] < 128 THEN 1 ELSE IF text[1] < 2048 THEN 2
          ELSE IF text[1] < 65536 THEN 3 ELSE 4)
         + Utf8Length(Tail(text))

\* C11 (share length): all n shares of one create_shares call have value
\* lists of the same length, the number of bytes of the secret's UTF-8
\* encoding (not its number of characters).
C11_ShareLength ==
    created.state = "returned" =>
        \A i \in 1..Len(created.value) :
            Len(created.value[i][2]) = Utf8Length(secret)

\* e-acute: 1 character, 2 bytes, 2 values in each of the 2 shares
C11_Witness ==
    /\ created.state = "returned" /\ secret = <<233>> /\ n = 2
    /\ Len(secret) = 1
    /\ \A i \in 1..2 : Len(created.value[i][2]) = 2

InField(v) == v \in 0..(prime - 1)

\* C12 (field range): every value of every share create_shares returns and
\* every result of _evaluate_polynomial, _lagrange_interpolate and
\* _mod_inverse lies in 0..P-1, whatever integers come in.
C12_FieldRange ==
    /\ created.state = "returned" =>
          \A i \in 1..Len(created.value) :
              \A pos \in 1..Len(created.value[i][2]) :
                  InField(created.value[i][2][pos])
    /\ poly.state = "returned" => InField(poly.value)
    /\ inverse.state = "returned" => InField(inverse.value)
    /\ (recovered.state # "none" /\ recovered.error \notin {ErrNoShares, ErrLength})
          => \A idx \in 1..Len(supplied[1][2]) :
                 InField(SecretValue(supplied, idx, prime))

\* a polynomial with negative coefficients at a negative point
C12_Witness ==
    /\ poly.state = "returned"
    /\ poly_args = <<(<<0 - 300, 0 - 1>>), 0 - 258>>
    /\ InField(poly.value)

\* C13 (inverse): (a * _mod_inverse(a, 257)) mod 257 = 1 for a in 1..256.
C13_InverseCorrect ==
    (inverse.state = "returned" /\ inverse_arg \in 1..(PRIME - 1))
        => (inverse_arg * inverse.value) % PRIME = 1

C13_Witness ==
    /\ inverse.state = "returned" /\ inverse_arg = 256 /\ inverse.value = 256

\* C14 (length mismatch): reconstruct_secret on shares whose value lists
\* are not all of one length raises the length error and returns nothing,
\* wherever the odd share stands.
C14_LengthMismatchRaises ==
    (/\ recovered.state # "none"
     /\ \E a, b \in 1..Len(supplied) :
            Len(supplied[a][2]) # Len(supplied[b][2]))
    => recovered = Raised(ErrLength)

\* lengths 2 and 3, the longer share second
C14_Witness ==
    /\ Len(supplied) = 2
    /\ Len(supplied[1][2]) = 2 /\ Len(supplied[2][2]) = 3
    /\ recovered = Raised(ErrLength)

\* C15 (empty share set): reconstruct_secret on no shares raises and
\* returns nothing.
C15_EmptyShareSetRaises ==
    (recovered.state # "none" /\ supplied = <<>>)
        => recovered = Raised(ErrNoShares)

C15_Witness ==
    recovered.state = "raised" /\ supplied = <<>> /\ created.state = "none"

(***************************************************************************)
(* Share texts.                                                            *)
(***************************************************************************)
\* the ten digits of base 10
DigitChars == Zero..(Zero + 9)
\* the characters int() reads as a decimal digit
DecimalChars == UNION {z..(z + 9) : z \in DecimalZeros}

\* t is empty or white space only
IsBlank(t) == \A i \in 1..Len(t) : t[i] \in WhiteSpace

\* t writes an integer the way int() reads one: an optional sign, then
\* digits, where an underscore may stand between two digits
IsNumeral(t) ==
    LET body == IF t # <<>> /\ t[1] \in {Minus, Plus} THEN Tail(t) ELSE t
    IN  /\ body # <<>>
        /\ \A i \in 1..Len(body) :
             \/ body[i] \in DecimalChars
             \/ /\ body[i] = Underscore
                /\ 1 < i /\ i < Len(body)
                /\ body[i - 1] \in DecimalChars
                /\ body[i + 1] \in DecimalChars

\* t is an integer token: a numeral with blanks around it
IsIntegerToken(t) ==
    LET before == Cardinality({i \in 1..Len(t) :
                                  \A j \in 1..i : t[j] \in WhiteSpace})
        after == Cardinality({i \in 1..Len(t) :
                                 \A j \in i..Len(t) : t[j] \in WhiteSpace})
    IN  IsNumeral(SubSeq(t, before + 1, Len(t) - after))

PositionsOf(t, c) == {i \in 1..Len(t) : t[i] = c}

\* the pieces of t between two neighbouring commas (or ends of t)
CommaTokens(t) ==
    LET cuts == PositionsOf(t, Comma) \cup {0, Len(t) + 1}
    IN  {SubSeq(t, a + 1, b - 1) :
            <<a, b>> \in {c \in cuts \X cuts :
                            /\ c[1] < c[2]
                            /\ \A m \in cuts : ~(c[1] < m /\ m < c[2])}}

\* t is one of the texts the parser has to reject
Malformed(t) ==
    \/ PositionsOf(t, Colon) = {}
    \/ LET colon == CHOOSE c \in PositionsOf(t, Colon) :
                        \A d \in PositionsOf(t, Colon) : c <= d
           index_part == SubSeq(t, 1, colon - 1)
           values_part == SubSeq(t, colon + 1, Len(t))
       IN  \/ IsBlank(values_part)
           \/ ~IsIntegerToken(index_part)
           \/ \E tok \in CommaTokens(values_part) : ~IsIntegerToken(tok)

\* C16 (malformed share rejection): parse_share_from_input raises, and so
\* returns no share, for every text without a colon, every text whose value
\* list after the first colon is empty or blank, and every text whose index
\* or one of whose comma-separated value tokens (an empty one included) is
\* not an integer.
C16_MalformedShareRejected ==
    (parsed.state # "none" /\ Malformed(share_text))
        => parsed = Raised(ErrFormat)

C16_Witness ==
    /\ share_text = <<97, 98, 99, Colon, 49, Comma, 50, Comma, 51>>
    /\ Malformed(share_text)
    /\ parsed = Raised(ErrFormat)

\* the digits, as numbers, that a string of digits writes after its
\* leading zeros
Significant(t) ==
    LET d == [i \in 1..Len(t) |->
                 CHOOSE v \in 0..9 : \E z \in DecimalZeros : t[i] = z + v]
        lead == Cardinality({i \in 1..Len(t) : \A j \in 1..i : d[j] = 0})
    IN  SubSeq(d, lead + 1, Len(t))

RECURSIVE Base10(_)
\* the number a string of digits writes in base 10
Base10(t) ==
    IF Len(Significant(t)) > 9 THEN Huge(FALSE, Significant(t))
    ELSE IF t = <<>> THEN 0
    ELSE 10 * Base10(SubSeq(t, 1, Len(t) - 1))
            + (CHOOSE d \in 0..9 : \E z \in DecimalZeros : t[Len(t)] = z + d)

\* t is z written in base 10
IsBase10(t, z) ==
    LET body == IF IsNegative(z) THEN Tail(t) ELSE t
    IN  /\ t # <<>>
        /\ IsNegative(z) => t[1] = Minus
        /\ body # <<>>
        /\ \A i \in 1..Len(body) : body[i] \in DigitChars
        /\ Len(body) > 1 => body[1] # Zero
        /\ IsHuge(z) <=> Len(body) > 9
        /\ Base10(body) = Magnitude(z)

\* the position of the j-th c of t; 0 for j = 0, Len(t) + 1 past the last
NthPosition(t, c, j) ==
    IF j = 0 THEN 0
    ELSE IF j > Cardinality(PositionsOf(t, c)) THEN Len(t) + 1
    ELSE CHOOSE q \in PositionsOf(t, c) :
            Cardinality({r \in PositionsOf(t, c) : r < q}) = j - 1

\* the j-th piece of t when t is cut at every c
Piece(t, c, j) ==
    SubSeq(t, NthPosition(t, c, j - 1) + 1, NthPosition(t, c, j) - 1)

\* format_share_for_display returned the text of format_arg: the index in
\* base 10, one colon, then the values in base 10 joined by commas; and for
\* a non-empty value list parse_share_from_input of that text, when called,
\* returned exactly (index, values)
WrittenAndReadBack ==
    LET index == format_arg[1]
        values == format_arg[2]
        list == Piece(formatted.value, Colon, 2)
    IN  /\ formatted.state = "returned"
        /\ Cardinality(PositionsOf(formatted.value, Colon)) = 1
        /\ IsBase10(Piece(formatted.value, Colon, 1), index)
        /\ values = <<>> => list = <<>>
        /\ values # <<>> =>
             /\ Cardinality(PositionsOf(list, Comma)) = Len(values) - 1
             /\ \A j \in 1..Len(values) :
                  IsBase10(Piece(list, Comma, j), values[j])
             /\ parsed.state # "none" => parsed = Returned(<<index, values>>)

\* the number of decimal digits of the integer z
DigitsOf(z) ==
    IF IsHuge(z) THEN Len(z.digits)
    ELSE Cardinality({e \in 0..9 : 10 ^ e <= Magnitude(z)}) + (IF z = 0 THEN 1 ELSE 0)

\* the index or a value of format_arg has more digits than str() writes
OverDigitLimit ==
    \/ DigitsOf(format_arg[1]) > IntMaxStrDigits
    \/ \E j \in 1..Len(format_arg[2]) :
          DigitsOf(format_arg[2][j]) > IntMaxStrDigits

\* C17 (share text round trip), as claimed: for every integer index and
\* every list of integer values format_share_for_display writes the index in
\* base 10, one colon, then the values in base 10 joined by commas, and for a
\* non-empty value list parse_share_from_input of that text returns exactly
\* (index, values); so does it for every share create_shares returned.
C17_ShareTextRoundTrip ==
    formatted.state # "none" => WrittenAndReadBack

\* C17 as amended: the same for every index and values of at most 4300
\* decimal digits each; when the index or a value has more digits,
\* format_share_for_display raises the ValueError of str() and writes no
\* text.
C17_ShareTextRoundTripAmended ==
    formatted.state # "none" =>
        IF OverDigitLimit THEN formatted = Raised(ErrIntDigits)
        ELSE WrittenAndReadBack

\* the share (1, [10^4299]), whose value has 4300 digits, written and read
\* back
C17_Witness ==
    /\ formatted.state = "returned"
    /\ Len(format_arg) = 2 /\ Len(format_arg[2]) = 1
    /\ IsHuge(format_arg[2][1])
    /\ DigitsOf(format_arg[2][1]) = IntMaxStrDigits
    /\ Len(share_text) = IntMaxStrDigits + 2
    /\ parsed.state = "returned"
    /\ parsed.value[2][1] = format_arg[2][1]

(***************************************************************************)
(* Order of the shares.                                                    *)
(***************************************************************************)
\* the longest list of shares reconstruct_secret is given
LongestList == IF MaxN > MaxSupplied THEN MaxN ELSE MaxSupplied

\* the orders in which m shares can be listed, for each m
OrdersOf ==
    [m \in 0..LongestList |->
        {q \in [1..m -> 1..m] : \A a, b \in 1..m : a # b => q[a] # q[b]}]

Orders(m) == OrdersOf[m]

\* C18 (order independence): every permutation of the list of shares given to
\* reconstruct_secret has the same outcome, the same secret or the same error.
C18_OrderIndependent ==
    recovered.state # "none" =>
        \A q \in Orders(Len(supplied)) :
            reconstruct_secret([j \in 1..Len(supplied) |-> supplied[q[j]]],
                               prime) = recovered

C18_Witness ==
    /\ created.state = "none"
    /\ recovered.state = "returned"
    /\ Len(supplied) = 2
    /\ supplied[1] # supplied[2]
    /\ reconstruct_secret(<<supplied[2], supplied[1]>>, prime) = recovered

(***************************************************************************)
(* The polynomial of a byte.                                               *)
(***************************************************************************)
\* the j-th coefficient drawn for the byte at position pos, j in 1..k-1
DrawnFor(pos, j) == draws[(pos - 1) * (k - 1) + j]

RECURSIVE PowerSum(_, _, _, _)
\* b + sum over power 1..top of DrawnFor(pos, power) * x^power, in the integers
PowerSum(b, pos, x, top) ==
    IF top = 0 THEN b
    ELSE PowerSum(b, pos, x, top - 1) + DrawnFor(pos, top) * (x ^ top)

\* C19 (split evaluation): the value at position pos of share i is
\* (sum over power 0..k-1 of coeff[power] * i^power) mod P with coeff[0] the
\* byte at pos and coeff[1..k-1] the k-1 numbers drawn for that byte, each
\* in [0, P-1]; no other byte and no other byte's draws enter it.
C19_SplitEvaluation ==
    created.state = "returned" =>
        /\ Len(draws) = Len(SplitBytes) * (k - 1)
        /\ \A d \in 1..Len(draws) : draws[d] \in 0..(PRIME - 1)
        /\ \A i \in 1..n, pos \in 1..Len(SplitBytes) :
             /\ created.value[i][1] = i
             /\ created.value[i][2][pos]
                    = PowerSum(SplitBytes[pos], pos, i, k - 1) % PRIME

\* the second byte of "AB" split 2-of-3 takes the second number drawn
C19_Witness ==
    /\ created.state = "returned"
    /\ Len(SplitBytes) = 2 /\ k = 2 /\ n = 3
    /\ draws[1] # draws[2] /\ draws[2] # 0
    /\ created.value[3][2][2] = (SplitBytes[2] + draws[2] * 3) % PRIME

(***************************************************************************)
(* The interpolation of a byte.                                            *)
(***************************************************************************)
\* the inverse of each element of the field but 0
InvTable ==
    [a \in 1..(PRIME - 1) |->
        CHOOSE z \in 1..(PRIME - 1) : (z * a) % PRIME = 1]

\* the indices of the supplied shares are pairwise distinct modulo P
DistinctModP ==
    \A a, b \in 1..Len(supplied) :
        a # b => (supplied[a][1] - supplied[b][1]) % PRIME # 0

RECURSIVE BasisAtZero(_, _)
\* product over j in J of (0 - x_j) * inverse(x_i - x_j), modulo P
BasisAtZero(i, J) ==
    IF J = {} THEN 1
    ELSE LET j == CHOOSE m \in J : TRUE
         IN  ((((0 - supplied[j][1]) % PRIME)
                  * InvTable[(supplied[i][1] - supplied[j][1]) % PRIME])
              * BasisAtZero(i, J \ {j})) % PRIME

RECURSIVE InterpolatedAtZero(_, _)
\* sum over i in I of y_i * product over j # i, modulo P
InterpolatedAtZero(idx, I) ==
    IF I = {} THEN 0
    ELSE LET i == CHOOSE m \in I : TRUE
         IN  (((supplied[i][2][idx] % PRIME)
                  * BasisAtZero(i, (1..Len(supplied)) \ {i}))
              + InterpolatedAtZero(idx, I \ {i})) % PRIME

\* the supplied shares are some shares of equal lengths with indices
\* pairwise distinct modulo P, and reconstruct_secret was called on them
Interpolable ==
    /\ recovered.state # "none"
    /\ supplied # <<>>
    /\ \A s \in 1..Len(supplied) : Len(supplied[s][2]) = Len(supplied[1][2])
    /\ DistinctModP

\* C20 (reconstruct computation): for shares of equal lengths with indices
\* pairwise distinct modulo P the byte produced at position idx is
\* ((sum over i of y_i * product over j # i of (0 - x_j) * inverse(x_i - x_j))
\* mod P) mod 256; the mod 256 changes the interpolated value only when that
\* is 256, which becomes 0, and every byte is in [0, 255].
C20_ReconstructComputation ==
    Interpolable =>
        LET value == [idx \in 1..Len(supplied[1][2]) |->
                         InterpolatedAtZero(idx, 1..Len(supplied))]
            byte == [idx \in 1..Len(supplied[1][2]) |-> value[idx] % 256]
        IN  /\ SecretBytes(supplied, prime) = byte
            /\ recovered = bytes_to_string(byte)
            /\ \A idx \in 1..Len(byte) :
                 /\ byte[idx] \in 0..255
                 /\ byte[idx] # value[idx] => (value[idx] = 256 /\ byte[idx] = 0)

C20_Witness ==
    /\ Interpolable
    /\ Len(supplied) = 2
    /\ \E idx \in 1..Len(supplied[1][2]) :
         /\ InterpolatedAtZero(idx, 1..2) = 256
         /\ SecretValue(supplied, idx, prime) = 256
         /\ SecretBytes(supplied, prime)[idx] = 0

(***************************************************************************)
(* Calls of two threads, line by line, on two engines.                     *)
(* A thread can be switched between any two lines of an operation. The     *)
(* helpers an operation calls (_string_to_bytes, _evaluate_polynomial,     *)
(* _lagrange_interpolate, _bytes_to_string) read self.prime and write only *)
(* their own locals: each is taken with the line that calls it.            *)
(* A list that a caller passes or that a line writes to is an object of    *)
(* the heap, known by its address; what it holds is held in it.            *)
(***************************************************************************)
Engines == {1, 2}

\* self.prime of engine e
ModulusOf(e) == IF e = 1 THEN prime ELSE prime2

\* <<secret, n, k>> of the calls
StatelessSplits ==
    {<<(<<>>), 2, 2>>, <<(<<65>>), 1, 2>>, <<(<<65>>), 2, 2>>,
     <<(<<65>>), 3, 2>>}

\* the lists passed to reconstruct_secret: none, two shares of unequal
\* lengths, two shares of "A", and one share whose byte is no UTF-8
StatelessLists ==
    { <<>>,
      << <<1, <<10>>>>, <<2, <<20, 10>>>> >>,
      << <<1, <<66>>>>, <<2, <<67>>>> >>,
      << <<1, <<255>>>> >> }

StatelessShares == {<<1, <<10>>>>, <<0 - 1, <<300, 256>>>>}

\* "1:10", "x"
StatelessTexts == {<<49, Colon, 49, 48>>, <<120>>}

\* thread t goes to a line
Goes(t, line) ==
    /\ calls' = [calls EXCEPT ![t].line = line]
    /\ UNCHANGED heap

\* the call of thread t raises
Raises(t, e) ==
    /\ calls' = [calls EXCEPT ![t].line = 0, ![t].outcome = Raised(e)]
    /\ UNCHANGED heap

\* the call of thread t ends with an outcome
Ends(t, outcome) ==
    /\ calls' = [calls EXCEPT ![t].line = 0, ![t].outcome = outcome]
    /\ UNCHANGED heap

\* a thread calls engine.create_shares(secret, n, k); of the two calls at
\* most one is a split that draws
CallCreateShares ==
    /\ \E t \in Threads, e \in Engines, a \in StatelessSplits :
         /\ calls[t].op = ""
         /\ NumDraws(a[1], a[2], a[3]) > 0 =>
                \A u \in Threads \ {t} :
                    NumDraws(calls[u].secret, calls[u].n, calls[u].k) = 0
         /\ calls' = [calls EXCEPT ![t] =
                [NoCall EXCEPT !.op = "create_shares", !.engine = e,
                               !.line = 40, !.secret = a[1], !.n = a[2],
                               !.k = a[3]]]
    /\ UNCHANGED heap
    /\ UNCHANGED <<prime, prime2, splitVars, joinVars, fieldVars, textVars,
                   webVars>>

\* the line of create_shares that thread t stands at
CreateSharesLine(t) ==
    CASE calls[t].line = 40 ->
           IF calls[t].secret = <<>> THEN Raises(t, ErrSecretEmpty)
           ELSE Goes(t, 42)
      [] calls[t].line = 42 ->
           IF calls[t].k > calls[t].n THEN Raises(t, ErrKGreaterN)
           ELSE Goes(t, 44)
      [] calls[t].line = 44 ->
           IF calls[t].k < 2 THEN Raises(t, ErrKTooSmall) ELSE Goes(t, 46)
      [] calls[t].line = 46 ->
           IF calls[t].n < 2 THEN Raises(t, ErrNTooSmall) ELSE Goes(t, 49)
      [] calls[t].line = 49 ->
           IF string_to_bytes(calls[t].secret).state = "raised"
           THEN Raises(t, string_to_bytes(calls[t].secret).error)
           ELSE /\ calls' = [calls EXCEPT
                               ![t].secret_bytes =
                                   string_to_bytes(calls[t].secret).value,
                               ![t].line = 50]
                /\ UNCHANGED heap
      [] calls[t].line = 50 ->
           /\ heap' = Append(heap, [i \in 1..calls[t].n |-> <<>>])
           /\ calls' = [calls EXCEPT ![t].new_shares = Len(heap) + 1,
                                     ![t].position = 1,
                                     ![t].line = 52]
      [] calls[t].line = 52 ->
           IF calls[t].position > Len(calls[t].secret_bytes)
           THEN Goes(t, 60)
           ELSE Goes(t, 54)
      [] calls[t].line = 54 ->
           /\ \E d \in DrawLists(calls[t].k - 1,
                                 ModulusOf(calls[t].engine)) :
                calls' = [calls EXCEPT
                            ![t].coeffs =
                                <<calls[t].secret_bytes[calls[t].position]>>
                                    \o d,
                            ![t].drawn = @ \o d,
                            ![t].i = 1,
                            ![t].line = 56]
           /\ UNCHANGED heap
      [] calls[t].line = 56 ->
           IF calls[t].i > calls[t].n
           THEN /\ calls' = [calls EXCEPT ![t].position = @ + 1,
                                          ![t].line = 52]
                /\ UNCHANGED heap
           ELSE Goes(t, 57)
      [] calls[t].line = 57 ->
           /\ calls' = [calls EXCEPT
                          ![t].y = evaluate_polynomial(
                                       calls[t].coeffs, calls[t].i,
                                       ModulusOf(calls[t].engine)),
                          ![t].line = 58]
           /\ UNCHANGED heap
      [] calls[t].line = 58 ->
           /\ heap' = [heap EXCEPT ![calls[t].new_shares][calls[t].i] =
                                       Append(@, calls[t].y)]
           /\ calls' = [calls EXCEPT ![t].i = @ + 1, ![t].line = 56]
      [] calls[t].line = 60 ->
           Ends(t, Returned([i \in 1..calls[t].n |->
                                <<ShareIndex(i),
                                  heap[calls[t].new_shares][i]>>]))

\* a thread in create_shares runs its line
StepCreateShares ==
    /\ \E t \in Threads :
         /\ calls[t].op = "create_shares"
         /\ calls[t].line # 0
         /\ CreateSharesLine(t)
    /\ UNCHANGED <<prime, prime2, splitVars, joinVars, fieldVars, textVars,
                   webVars>>

\* a thread calls engine.reconstruct_secret(shares) on a list it wrote
CallReconstructSecret ==
    /\ \E t \in Threads, e \in Engines, shares \in StatelessLists :
         /\ calls[t].op = ""
         /\ heap' = Append(heap, shares)
         /\ calls' = [calls EXCEPT ![t] =
                [NoCall EXCEPT !.op = "reconstruct_secret", !.engine = e,
                               !.line = 75, !.shares = Len(heap) + 1,
                               !.passed = shares]]
    /\ UNCHANGED <<prime, prime2, splitVars, joinVars, fieldVars, textVars,
                   webVars>>

\* secret_bytes.append(...) landing in the list the caller passed
AppendTarget_shares(call) == call.shares

\* the list that secret_bytes.append(...) writes to: the one line 83 made
AppendTarget(call) == call.new_bytes

\* the line of reconstruct_secret that thread t stands at
ReconstructSecretLine(t) ==
    CASE calls[t].line = 75 ->
           IF heap[calls[t].shares] = <<>> THEN Raises(t, ErrNoShares)
           ELSE Goes(t, 79)
      [] calls[t].line = 79 ->
           /\ calls' = [calls EXCEPT
                          ![t].share_length =
                              Len(heap[calls[t].shares][1][2]),
                          ![t].line = 80]
           /\ UNCHANGED heap
      [] calls[t].line = 80 ->
           IF \E s \in 1..Len(heap[calls[t].shares]) :
                  Len(heap[calls[t].shares][s][2]) # calls[t].share_length
           THEN Raises(t, ErrLength)
           ELSE Goes(t, 83)
      [] calls[t].line = 83 ->
           /\ heap' = Append(heap, <<>>)
           /\ calls' = [calls EXCEPT ![t].new_bytes = Len(heap) + 1,
                                     ![t].position = 1,
                                     ![t].line = 84]
      [] calls[t].line = 84 ->
           IF calls[t].position > calls[t].share_length THEN Goes(t, 90)
           ELSE Goes(t, 85)
      [] calls[t].line = 85 ->
           /\ calls' = [calls EXCEPT
                          ![t].x_values = XValues(heap[calls[t].shares]),
                          ![t].line = 86]
           /\ UNCHANGED heap
      [] calls[t].line = 86 ->
           /\ calls' = [calls EXCEPT
                          ![t].y_values = YValues(heap[calls[t].shares],
                                                  calls[t].position),
                          ![t].line = 87]
           /\ UNCHANGED heap
      [] calls[t].line = 87 ->
           /\ calls' = [calls EXCEPT
                          ![t].secret_byte =
                              lagrange_interpolate(
                                  0, calls[t].x_values, calls[t].y_values,
                                  ModulusOf(calls[t].engine)),
                          ![t].line = 88]
           /\ UNCHANGED heap
      [] calls[t].line = 88 ->
           /\ heap' = [heap EXCEPT ![AppendTarget(calls[t])] =
                                       Append(@,
                                              FoldByte(calls[t].secret_byte))]
           /\ calls' = [calls EXCEPT ![t].position = @ + 1, ![t].line = 84]
      [] calls[t].line = 90 ->
           Ends(t, bytes_to_string(heap[calls[t].new_bytes]))

\* a thread in reconstruct_secret runs its line
StepReconstructSecret ==
    /\ \E t \in Threads :
         /\ calls[t].op = "reconstruct_secret"
         /\ calls[t].line # 0
         /\ ReconstructSecretLine(t)
    /\ UNCHANGED <<prime, prime2, splitVars, joinVars, fieldVars, textVars,
                   webVars>>

\* a thread calls format_share_for_display(index, share) on a list it wrote
CallFormatShare ==
    /\ \E t \in Threads, sh \in StatelessShares :
         /\ calls[t].op = ""
         /\ heap' = Append(heap, sh[2])
         /\ calls' = [calls EXCEPT ![t] =
                [NoCall EXCEPT !.op = "format_share_for_display",
                               !.line = 141, !.index = sh[1],
                               !.shares = Len(heap) + 1,
                               !.passed = sh[2]]]
    /\ UNCHANGED <<prime, prime2, splitVars, joinVars, fieldVars, textVars,
                   webVars>>

\* a thread in format_share_for_display runs its line
StepFormatShare ==
    /\ \E t \in Threads :
         /\ calls[t].op = "format_share_for_display"
         /\ calls[t].line = 141
         /\ Ends(t, format_share_for_display(calls[t].index,
                                             heap[calls[t].shares]))
    /\ UNCHANGED <<prime, prime2, splitVars, joinVars, fieldVars, textVars,
                   webVars>>

\* a thread calls parse_share_from_input(share_text)
CallParseShare ==
    /\ \E t \in Threads, text \in StatelessTexts :
         /\ calls[t].op = ""
         /\ calls' = [calls EXCEPT ![t] =
                [NoCall EXCEPT !.op = "parse_share_from_input",
                               !.line = 158, !.text = text]]
    /\ UNCHANGED heap
    /\ UNCHANGED <<prime, prime2, splitVars, joinVars, fieldVars, textVars,
                   webVars>>

\* a thread in parse_share_from_input runs its body: a str is immutable and
\* the body has only locals
StepParseShare ==
    /\ \E t \in Threads :
         /\ calls[t].op = "parse_share_from_input"
         /\ calls[t].line = 158
         /\ Ends(t, parse_share_from_input(calls[t].text))
    /\ UNCHANGED <<prime, prime2, splitVars, joinVars, fieldVars, textVars,
                   webVars>>

NextStateless ==
    \/ CallCreateShares
    \/ StepCreateShares
    \/ CallReconstructSecret
    \/ StepReconstructSecret
    \/ CallFormatShare
    \/ StepFormatShare
    \/ CallParseShare
    \/ StepParseShare

SpecStateless == Init /\ [][NextStateless]_vars

\* a call has ended
Ended(call) == call.op # "" /\ call.line = 0

\* the outcome the call has when it runs alone on a new engine, given the
\* coefficients it drew
Alone(call) ==
    CASE call.op = "create_shares" ->
           create_shares(call.secret, call.n, call.k, call.drawn, PRIME)
      [] call.op = "reconstruct_secret" ->
           reconstruct_secret(call.passed, PRIME)
      [] call.op = "format_share_for_display" ->
           format_share_for_display(call.index, call.passed)
      [] call.op = "parse_share_from_input" ->
           parse_share_from_input(call.text)

\* the call was passed a list
PassedList(call) ==
    call.op \in {"reconstruct_secret", "format_share_for_display"}

\* C21 (statelessness): no core operation changes the modulus of an engine
\* or the shares the caller passed, whether it returns or raises; so in any
\* interleaving of the lines of two calls, on one engine or two, each call
\* ends with the outcome it has alone, given the coefficients it drew.
C21_Stateless ==
    /\ prime = PRIME
    /\ prime2 = PRIME
    /\ \A t \in Threads :
         /\ PassedList(calls[t]) => heap[calls[t].shares] = calls[t].passed
         /\ Ended(calls[t]) => calls[t].outcome = Alone(calls[t])

\* a split and a reconstruction on the same engine, both returned, the split
\* having made its list between the call of the reconstruction and the line
\* that made the list of bytes
C21_Witness ==
    /\ Ended(calls[1]) /\ calls[1].op = "create_shares"
    /\ Ended(calls[2]) /\ calls[2].op = "reconstruct_secret"
    /\ calls[1].engine = calls[2].engine
    /\ calls[1].outcome.state = "returned"
    /\ calls[2].outcome = Returned(<<65>>)
    /\ calls[2].shares = 1
    /\ calls[1].new_shares = 2
    /\ calls[2].new_bytes = 3
    /\ heap[1] = calls[2].passed

(***************************************************************************)
(* Splits into many shares: create_shares puts no upper bound on n.        *)
(***************************************************************************)
ManySecrets == {<<0>>, <<65>>}
ManyN == {PRIME - 1, PRIME, PRIME + 1, 2 * PRIME}
ManyK == {2}

\* shamir.create_shares(s, nn, kk) on a fresh engine, nn around the modulus
CreateManyShares ==
    /\ Fresh
    /\ \E s \in ManySecrets, nn \in ManyN, kk \in ManyK :
         \E d \in DrawLists(NumDraws(s, nn, kk), prime) :
              /\ secret' = s
              /\ n' = nn
              /\ k' = kk
              /\ draws' = d
              /\ created' = create_shares(s, nn, kk, d, prime)
    /\ UNCHANGED <<prime, prime2, webVars, threadVars, joinVars, fieldVars, textVars>>

NextMany == CreateManyShares

SpecMany == Init /\ [][NextMany]_vars

\* the splits, those into many shares included, and reconstruct_secret on
\* some of their shares
NextUnder ==
    \/ CreateShares
    \/ CreateSharesTwoDraws
    \/ CreateManyShares
    \/ ReconstructFromSplit

SpecUnder == Init /\ [][NextUnder]_vars

\* C22 (no share at the recovery point), as claimed: whatever n is, no share
\* create_shares returns has an index congruent to 0 modulo P, so none holds
\* the bytes of the secret by construction.
C22_NoShareAtRecoveryPoint ==
    created.state = "returned" =>
        \A i \in 1..Len(created.value) :
            created.value[i][1] % PRIME # 0

(***************************************************************************)
(* Order of the checks of create_shares.                                   *)
(***************************************************************************)
\* C23 (validation precedence): the checks run in the order empty secret,
\* k > n, k < 2, n < 2 and the first that fails decides the error; an empty
\* secret is reported whatever n and k are, and the error on n < 2 is never
\* raised, since n < 2 implies k > n or k < 2.
C23_ValidationPrecedence ==
    created.state # "none" =>
        /\ secret = <<>> => created = Raised(ErrSecretEmpty)
        /\ (secret # <<>> /\ k > n) => created = Raised(ErrKGreaterN)
        /\ (secret # <<>> /\ k <= n /\ k < 2) => created = Raised(ErrKTooSmall)
        /\ created # Raised(ErrNTooSmall)
        /\ n < 2 => (k > n \/ k < 2)
        /\ (secret # <<>> /\ k <= n /\ k >= 2)
              => ~(created.state = "raised" /\ created.error \in ValidationErrors)

C23_Witness ==
    /\ secret # <<>> /\ n = 1 /\ k = 1
    /\ created = Raised(ErrKTooSmall)

(***************************************************************************)
(* A supplied share at the recovery point.                                 *)
(***************************************************************************)
\* the supplied shares whose index is congruent to 0 modulo P
AtRecoveryPoint == {s \in 1..Len(supplied) : supplied[s][1] % PRIME = 0}

\* reconstruct_secret was called with exactly one share at the recovery point
OneAtRecoveryPoint ==
    /\ recovered.state # "none"
    /\ Cardinality(AtRecoveryPoint) = 1

\* that share
ZeroShare == supplied[CHOOSE s \in AtRecoveryPoint : TRUE]

\* (its value at each position mod P) mod 256
ZeroShareBytes ==
    [idx \in 1..Len(ZeroShare[2]) |-> (ZeroShare[2][idx] % PRIME) % 256]

\* C24 (a share with index 0 dominates), as claimed: with exactly one
\* supplied share of index congruent to 0 modulo P, reconstruct_secret raises
\* no error and every output byte is (that share's value mod P) mod 256.
C24_ZeroIndexDominates ==
    OneAtRecoveryPoint =>
        /\ recovered.state = "returned"
        /\ string_to_bytes(recovered.value).value = ZeroShareBytes

\* C24 as amended: with exactly one supplied share of index congruent to 0
\* modulo P, reconstruct_secret raises the length error when two shares
\* differ in length; otherwise every byte it interpolates is (that share's
\* value mod P) mod 256 whatever the other shares hold, and the outcome is
\* the decoding of these bytes: the text when they are valid UTF-8, and
\* UnicodeDecodeError when they are not.
C24_ZeroIndexAmended ==
    OneAtRecoveryPoint =>
        IF \E s \in 1..Len(supplied) : Len(supplied[s][2]) # Len(ZeroShare[2])
        THEN recovered = Raised(ErrLength)
        ELSE /\ SecretBytes(supplied, prime) = ZeroShareBytes
             /\ recovered = bytes_to_string(ZeroShareBytes)
             /\ recovered.state = "returned"
                   => string_to_bytes(recovered.value).value = ZeroShareBytes
             /\ recovered.state = "raised" => recovered.error = ErrDecode

C24_Witness ==
    /\ OneAtRecoveryPoint
    /\ Len(supplied) = 2
    /\ supplied[1][2] # supplied[2][2]
    /\ recovered.state = "returned"
    /\ string_to_bytes(recovered.value).value = ZeroShareBytes

(***************************************************************************)
(* What the parser accepts.                                                *)
(***************************************************************************)
\* the integer a numeral writes: its digits in base 10, with its sign
NumeralValue(t) ==
    LET digits == SelectSeq(t, LAMBDA c : c \in DecimalChars)
    IN  IF t[1] = Minus THEN Negated(Base10(digits)) ELSE Base10(digits)

\* the integer an integer token writes, the blanks around it ignored
TokenValue(t) == NumeralValue(SelectSeq(t, LAMBDA c : c \notin WhiteSpace))

\* the number of digits of a token
DigitsIn(t) == Cardinality({i \in 1..Len(t) : t[i] \in DecimalChars})

\* the index and the values the text writes, when the parser returned them
ReturnedAsWritten ==
    LET index_part == Piece(share_text, Colon, 1)
        values_part ==
            SubSeq(share_text, Len(index_part) + 2, Len(share_text))
        count == Cardinality(PositionsOf(values_part, Comma)) + 1
    IN  /\ parsed.state = "returned"
        /\ parsed.value = <<TokenValue(index_part),
                            [j \in 1..count |->
                                TokenValue(Piece(values_part, Comma, j))]>>

\* no integer of the text has more digits than int() reads
WithinDigitLimit ==
    LET index_part == Piece(share_text, Colon, 1)
        values_part ==
            SubSeq(share_text, Len(index_part) + 2, Len(share_text))
    IN  /\ DigitsIn(index_part) <= IntMaxStrDigits
        /\ \A tok \in CommaTokens(values_part) :
              DigitsIn(tok) <= IntMaxStrDigits

\* C25 (syntactic checks only), as claimed: every text made of an integer, a
\* colon and a non-empty list of integers separated by commas, with blanks
\* allowed around the index and around each value, is accepted and returned
\* as the integers written, an index that is 0 or negative and values outside
\* [0, P-1] included: no share is refused for the range of its index or
\* values.
C25_SyntacticChecksOnly ==
    (parsed.state # "none" /\ ~Malformed(share_text)) => ReturnedAsWritten

\* C25 as amended: such a text is accepted and returned as the integers
\* written, whatever their sign and size, when none of them has more than
\* 4300 digits; when one has more, the text is refused with the error of a
\* malformed share.
C25_SyntacticChecksAmended ==
    (parsed.state # "none" /\ ~Malformed(share_text)) =>
        IF WithinDigitLimit THEN ReturnedAsWritten
        ELSE parsed = Raised(ErrFormat)

C25_Witness ==
    /\ share_text = <<Minus, 49, Colon, 51, 48, 48, Comma, Minus, 53>>
    /\ parsed = Returned(<<0 - 1, <<300, 0 - 5>>>>)

(***************************************************************************)
(* Web recovery.                                                           *)
(***************************************************************************)
\* the handler read a JSON object whose 'parts' is a text
ReadsParts ==
    /\ request.path = "/api/recover"
    /\ data.state = "returned"
    /\ KindOf(data.value) = "dict"
    /\ "parts" \in ValueOf(data.value).keys
    /\ KindOf(ValueOf(data.value).values["parts"]) = "str"

\* that text
PartsText == ValueOf(ValueOf(data.value).values["parts"])

\* its lines that are not blank
NonBlankLines ==
    LET count == Cardinality(PositionsOf(PartsText, Newline)) + 1
    IN  {line \in {Piece(PartsText, Newline, j) : j \in 1..count} :
            ~IsBlank(line)}

\* the shares written on the non-blank lines, in the order of the text
LineShares ==
    LET count == Cardinality(PositionsOf(PartsText, Newline)) + 1
        kept  == SelectSeq([j \in 1..count |-> Piece(PartsText, Newline, j)],
                           LAMBDA line : ~IsBlank(line))
    IN  [j \in 1..Len(kept) |-> parse_share_from_input(kept[j]).value]

\* the response is all or nothing: status 200 and a JSON body with a success
\* flag; success with the secret and the number of parts only when every
\* non-blank line is a share and reconstruct_secret returned; failure with an
\* error message when a line is malformed or no line is given
AllOrNothing(response) ==
    /\ response.status = 200
    /\ response.content_type = "application/json"
    /\ "success" \in response.body.keys
    /\ response.body.success \in BOOLEAN
    /\ response.body.success =>
         /\ ReadsParts
         /\ \A line \in NonBlankLines : ~Malformed(line)
         /\ reconstruct_secret(LineShares, PRIME).state = "returned"
         /\ response.body.keys = {"success", "secret", "parts_count"}
         /\ response.body.secret = reconstruct_secret(LineShares, PRIME).value
         /\ response.body.parts_count = Len(LineShares)
    /\ (~ReadsParts \/ NonBlankLines = {}
            \/ \E line \in NonBlankLines : Malformed(line)) =>
         /\ ~response.body.success
         /\ response.body.keys = {"success", "error"}
         /\ response.body.error # ""

\* a POST to /api/recover was received
RecoverPosted == request.method = "POST" /\ request.path = "/api/recover"

\* it was answered once, all or nothing
Answered == Len(responses) = 1 /\ AllOrNothing(responses[1])

\* C26 (web recovery always answers, all or nothing), as claimed: for every
\* POST to /api/recover the handler sends exactly one response, with status
\* 200 and a JSON body with a success flag, true only if every non-blank line
\* parsed and reconstruct_secret returned, false with an error message if a
\* line is malformed or no line is given.
C26_AlwaysAnswers == RecoverPosted ~> Answered
====
